---------------------------- MODULE Spec2Model ----------------------------
(***************************************************************************)
(* Tag store of the LoRA dataset tagger (src/data_manager.py, DataManager) *)
(* with the configuration of src/main.py (AppConfig).                      *)
(*                                                                         *)
(* A string is a sequence of one-character strings, so that strip(),       *)
(* lower(), split(',') and join() are computed character by character.     *)
(* A tag list is a sequence of strings.                                    *)
(***************************************************************************)
EXTENDS Integers, Sequences, FiniteSets, TLC

(***************************************************************************)
(* Bounds of the model.                                                    *)
(***************************************************************************)
\* configured HISTORY_MAX_DEPTH values range over 1..MaxDepth
MaxDepth == 2
\* number of operations after the (first) load_data
MaxSteps == 3

(***************************************************************************)
(* Python string primitives.                                               *)
(***************************************************************************)
\* str.isspace() of one character
IsSpace(c) == c = " "

\* str.lower() of one character
LowerChar(c) == CASE c = "A" -> "a" [] c = "B" -> "b" [] OTHER -> c

\* str.lower()
Lower(s) == [i \in 1..Len(s) |-> LowerChar(s[i])]

RECURSIVE LStrip(_)
\* str.lstrip()
LStrip(s) == IF s # <<>> /\ IsSpace(Head(s)) THEN LStrip(Tail(s)) ELSE s

RECURSIVE RStrip(_)
\* str.rstrip()
RStrip(s) ==
    IF s # <<>> /\ IsSpace(s[Len(s)]) THEN RStrip(SubSeq(s, 1, Len(s) - 1)) ELSE s

\* str.strip()
Strip(s) == RStrip(LStrip(s))

RECURSIVE JoinFrom(_, _, _)
JoinFrom(sep, tags, i) ==
    IF i > Len(tags) THEN <<>>
    ELSE IF i = Len(tags) THEN tags[i]
    ELSE tags[i] \o sep \o JoinFrom(sep, tags, i + 1)

\* sep.join(tags)
Join(sep, tags) == JoinFrom(sep, tags, 1)

RECURSIVE SplitComma(_, _, _)
\* content.split(','): cur is the piece being read, i the next character
SplitComma(content, i, cur) ==
    IF i > Len(content) THEN <<cur>>
    ELSE IF content[i] = "," THEN <<cur>> \o SplitComma(content, i + 1, <<>>)
    ELSE SplitComma(content, i + 1, Append(cur, content[i]))

\* x in seq
In(x, seq) == \E i \in 1..Len(seq) : seq[i] = x

\* seq.index(x), for x in seq
IndexOf(x, seq) == CHOOSE i \in 1..Len(seq) : seq[i] = x /\ \A j \in 1..(i - 1) : seq[j] # x

\* seq.remove(x), for x in seq: drops the first occurrence
RemoveFirst(x, seq) ==
    LET i == IndexOf(x, seq) IN SubSeq(seq, 1, i - 1) \o SubSeq(seq, i + 1, Len(seq))


(***************************************************************************)
(* Configuration and file system.                                          *)
(***************************************************************************)
\* TAG_SEPARATOR of main.py: comma + space
TAG_SEPARATOR == <<",", " ">>

\* the values AppConfig can be given: ENFORCE_LOWERCASE on or off, and a
\* HISTORY_MAX_DEPTH of at least 1
Configs ==
    [ENFORCE_LOWERCASE : BOOLEAN, HISTORY_MAX_DEPTH : 1..MaxDepth]

\* image paths, in the order str.sort() gives them
AllImages == <<"a.jpg", "a.png", "b.jpg">>

Images == {AllImages[i] : i \in 1..Len(AllImages)}

\* Path(filename).with_suffix('.txt')
TxtPath(filename) ==
    CASE filename = "a.jpg" -> "a.txt"
      [] filename = "a.png" -> "a.txt"
      [] filename = "b.jpg" -> "b.txt"

TxtFiles == {TxtPath(f) : f \in Images}

\* a sidecar that does not exist (no content is this sequence)
NoFile == <<"NoFile">>

\* the value None
None == "None"

\* no tag (self.dragged_tag when no pill is dragged, the tag of no menu, the
\* target of a drop on the empty part of a category)
Nothing == <<"Nothing">>

\* no context menu has been posted
NoMenu == [kind |-> "none", tag |-> Nothing, category |-> None]

\* no dialog of _edit_category_as_text is open
NoDialog == [open |-> FALSE, category_name |-> None, original_tags_set |-> {},
             text |-> <<>>, attached |-> FALSE]

(***************************************************************************)
(* DataManager: pure parts.                                                *)
(***************************************************************************)
\* [tag.strip() for tag in parts], then the non-empty ones
StripAll(parts) ==
    SelectSeq([i \in 1..Len(parts) |-> Strip(parts[i])], LAMBDA t : t # <<>>)

\* _load_tags_from_file, on the content of the file
LoadTagsFromContent(content) ==
    LET c == Strip(content) IN
    IF c = <<>> THEN <<>> ELSE StripAll(SplitComma(c, 1, <<>>))

RECURSIVE CleanFrom(_, _, _, _, _)
\* the loop of save_tags: i is the next element of new_tags_list
CleanFrom(new_tags_list, i, cleaned_tags, seen, lowercase) ==
    IF i > Len(new_tags_list) THEN cleaned_tags
    ELSE LET tag == Strip(new_tags_list[i]) IN
         IF tag # <<>> /\ tag \notin seen
         THEN LET t == IF lowercase THEN Lower(tag) ELSE tag IN
              CleanFrom(new_tags_list, i + 1, Append(cleaned_tags, t),
                        seen \cup {t}, lowercase)
         ELSE CleanFrom(new_tags_list, i + 1, cleaned_tags, seen, lowercase)

\* cleaned_tags of save_tags
CleanTags(new_tags_list, lowercase) ==
    CleanFrom(new_tags_list, 1, <<>>, {}, lowercase)

\* Counter.update(set(tags)): a tag counted once for each list
CounterUpdateOncePerList(counter, tags) ==
    LET keys == DOMAIN counter \cup {tags[i] : i \in 1..Len(tags)}
    IN [t \in keys |-> (IF t \in DOMAIN counter THEN counter[t] ELSE 0)
                        + (IF \E i \in 1..Len(tags) : tags[i] = t THEN 1 ELSE 0)]

\* Counter.update(tags): one more for every element of tags
CounterUpdate(counter, tags) ==
    LET occ(t) == Cardinality({i \in 1..Len(tags) : tags[i] = t})
        keys == DOMAIN counter \cup {tags[i] : i \in 1..Len(tags)}
    IN [t \in keys |-> (IF t \in DOMAIN counter THEN counter[t] ELSE 0) + occ(t)]

RECURSIVE CountValues(_, _, _)
CountValues(d, keys, counter) ==
    IF keys = {} THEN counter
    ELSE LET k == CHOOSE x \in keys : TRUE IN
         CountValues(d, keys \ {k}, CounterUpdate(counter, d[k]))

\* recalculate_frequency: the counter cleared, then updated with every list
RecalculateFrequency(d) == CountValues(d, DOMAIN d, <<>>)

RECURSIVE FirstOccurrences(_, _)
\* seq without the elements that stood in it before (acc: those seen so far)
FirstOccurrences(seq, acc) ==
    IF seq = <<>> THEN <<>>
    ELSE IF Head(seq) \in acc THEN FirstOccurrences(Tail(seq), acc)
    ELSE <<Head(seq)>> \o FirstOccurrences(Tail(seq), acc \cup {Head(seq)})

RECURSIVE Concat(_, _, _)
\* the lists d[keys[i]], d[keys[i + 1]], ... one after the other
Concat(d, keys, i) ==
    IF i > Len(keys) THEN <<>> ELSE d[keys[i]] \o Concat(d, keys, i + 1)

\* the keys of the counter after recalculate_frequency, in the order Counter
\* keeps them: the order in which update() met each tag first, going through
\* self.data.values() (order: the keys of self.data as they were inserted)
FrequencyKeys(d, order) ==
    FirstOccurrences(Concat(d, SelectSeq(order, LAMBDA f : f \in DOMAIN d), 1), {})

\* _push_history with the test len(stack) > depth + 1
PushHistoryOffByOne(stack, filename, tags, depth) ==
    LET s == Append(stack, <<filename, tags>>) IN
    IF Len(s) > depth + 1 THEN Tail(s) ELSE s

\* _push_history with pop() in place of pop(0): the newest entry is evicted
PushHistoryDropNewest(stack, filename, tags, depth) ==
    LET s == Append(stack, <<filename, tags>>) IN
    IF Len(s) > depth THEN SubSeq(s, 1, Len(s) - 1) ELSE s

\* _push_history
PushHistory(stack, filename, tags, depth) ==
    LET s == Append(stack, <<filename, tags>>) IN
    IF Len(s) > depth THEN Tail(s) ELSE s

(***************************************************************************)
(* State.                                                                  *)
(***************************************************************************)
VARIABLES
    config,         \* self.config: ENFORCE_LOWERCASE, HISTORY_MAX_DEPTH
    disk_images,    \* the image files of the dataset folder
    listing,        \* the same, in the order in which the glob() calls of
                    \* load_data yield them
    files,          \* content of every sidecar .txt file, or NoFile
    unwritable,     \* the sidecar files that cannot be opened for writing
    image_files,    \* self.image_files
    data,           \* self.data: filename -> tag list
    tag_frequency,  \* self.tag_frequency: the count of every key
    tag_keys,       \* the keys of self.tag_frequency in the order the Counter
                    \* holds them
    history_stack,  \* self.history_stack: <<filename, tags>> entries
    last,           \* the last call: its name, arguments and return value
    base,           \* the last call that was not undo(), with self.data and
                    \* self.history_stack as they were before it
    run,            \* (filename, data after the call) of the save_tags calls
                    \* made in a row, the last HISTORY_MAX_DEPTH + 1 of them
    undone,         \* number of undo() calls made in a row since then
    all_written,    \* no file write has failed since load_data
    steps,          \* number of calls since construction, the first load_data
                    \* aside
    image_list,     \* CategoryOrganizer: self.image_list (empty: no organizer
                    \* window has been opened)
    categories,     \* CategoryOrganizer: self.categories
    uncategorized_tags, \* CategoryOrganizer: self.uncategorized_tags, a dict
                    \* kept as the sequence of its (tag, count) items
    tag_renames,    \* CategoryOrganizer: self.tag_renames, a dict kept as the
                    \* sequence of its (original, renamed) items
    undo_stack,     \* CategoryOrganizer: self.undo_stack
    redo_stack,     \* CategoryOrganizer: self.redo_stack
    menu,           \* the context menu posted last: the tag and the category
                    \* that the commands of its entries were built with
    dragged_tag,    \* CategoryOrganizer: self.dragged_tag
    drag_source_category, \* CategoryOrganizer: self.drag_source_category
    dialog,         \* the dialog of _edit_category_as_text that is open: its
                    \* category_name, original_tags_set, the content of its
                    \* text widget, and whether the dict category it holds
                    \* is still an item of self.categories
    groups_file     \* the .lora_tagger_groups_<hash>.json file of the
                    \* folder: whether it exists, and its 'images' dict, kept
                    \* as the sequence of its (image name, (category name,
                    \* tags) items) items

vars == <<config, disk_images, listing, files, unwritable, image_files, data,
          tag_frequency, tag_keys, history_stack, last, base, run, undone,
          all_written, steps, image_list, categories, uncategorized_tags,
          tag_renames, undo_stack, redo_stack, menu, dragged_tag,
          drag_source_category, dialog, groups_file>>

\* the fields of DataManager, with the files and the history of the calls
dmvars == <<config, disk_images, listing, files, unwritable, image_files, data,
            tag_frequency, tag_keys, history_stack, base, run, undone,
            all_written, steps>>

\* the fields of CategoryOrganizer, and the groups file it keeps in the folder
orgvars == <<image_list, categories, uncategorized_tags, tag_renames,
             undo_stack, redo_stack, menu, dragged_tag, drag_source_category,
             dialog, groups_file>>

\* the part of the state the methods of DataManager read and write
\* (writes: the file writes made so far by the call, each with its outcome)
Self == [data |-> data, tag_frequency |-> tag_frequency, tag_keys |-> tag_keys,
         history_stack |-> history_stack, files |-> files, writes |-> <<>>]

(***************************************************************************)
(* Inputs.                                                                 *)
(***************************************************************************)
\* The folders that are scanned.  The first holds a sidecar with a duplicate
\* and an upper-case tag, the second two images that share their base name
\* (and so their sidecar), the third an image without a sidecar.  listing is
\* the order in which the directory yields the images (*.jpg before *.png,
\* the order of SUPPORTED_FORMATS; inside one format any order).
Folders ==
    { [images |-> {"a.jpg", "b.jpg"}, listing |-> <<"b.jpg", "a.jpg">>,
       files |-> [p \in TxtFiles |->
                    IF p = "a.txt" THEN <<"b", ",", " ", "A", ",", "b">>
                    ELSE <<"a", ",", " ", "b">>]],
      [images |-> {"a.jpg", "a.png"}, listing |-> <<"a.jpg", "a.png">>,
       files |-> [p \in TxtFiles |->
                    IF p = "a.txt" THEN <<"a", ",", " ", "b">> ELSE NoFile]],
      [images |-> {"a.jpg", "b.jpg"}, listing |-> <<"a.jpg", "b.jpg">>,
       files |-> [p \in TxtFiles |->
                    IF p = "a.txt" THEN <<"A">> ELSE NoFile]] }

\* new_tags_list arguments of save_tags
PlainLists ==
    { << <<"b">>, <<"a">> >>,
      << <<"A">>, <<" ", "a">>, <<>>, <<"A">> >> }

\* the same, and a list with a tag that holds a comma
SaveLists == PlainLists \cup { << <<"a", ",", "b">> >> }

\* tag arguments of the global operations
GlobalTags == { <<"a">>, <<"A">>, <<" ", "b">> }

\* (old_tag, new_tag) arguments of rename_tag_globally
RenamePairs ==
    { << <<"a">>, <<"b">> >>, << <<"b">>, <<"c", " ">> >>,
      << <<"a">>, <<"A">> >>, << <<"a">>, <<"B">> >>, << <<"b">>, <<"b">> >> }

\* every sidecar can be written, or a.txt is read-only (in the first folder)
Unwritables == {{}, {"a.txt"}}

(***************************************************************************)
(* DataManager: methods, as functions of the state they read.              *)
(***************************************************************************)
\* self.data.get(filename, [])
DataGet(d, filename) == IF filename \in DOMAIN d THEN d[filename] ELSE <<>>

\* self.data[filename] = tags
DataSet(d, filename, tags) ==
    [f \in DOMAIN d \cup {filename} |-> IF f = filename THEN tags ELSE d[f]]

\* save_tags(filename, new_tags_list) in state st; bad: the unwritable files.
\* The result is the state after the call and the value returned.
SaveTagsIn(st, filename, new_tags_list, bad) ==
    LET pushed == PushHistory(st.history_stack, filename,
                              DataGet(st.data, filename),
                              config.HISTORY_MAX_DEPTH)
        cleaned_tags == CleanTags(new_tags_list, config.ENFORCE_LOWERCASE)
        d == DataSet(st.data, filename, cleaned_tags)
        txt_path == TxtPath(filename)
        content == Join(TAG_SEPARATOR, cleaned_tags)
    IN IF txt_path \notin bad
       THEN [st |-> [data |-> d,
                     tag_frequency |-> RecalculateFrequency(d),
                     tag_keys |-> FrequencyKeys(d, listing),
                     history_stack |-> pushed,
                     files |-> [st.files EXCEPT ![txt_path] = content],
                     writes |-> Append(st.writes, <<filename, TRUE>>)],
             ret |-> TRUE]
       ELSE [st |-> [data |-> d,
                     tag_frequency |-> st.tag_frequency,
                     tag_keys |-> st.tag_keys,
                     history_stack |-> pushed,
                     files |-> st.files,
                     writes |-> Append(st.writes, <<filename, FALSE>>)],
             ret |-> FALSE]

\* undo() reading the last entry without popping it
UndoKeepsEntry(st, bad) ==
    IF st.history_stack = <<>> THEN [st |-> st, ret |-> None]
    ELSE LET n == Len(st.history_stack)
             filename == st.history_stack[n][1]
             old_tags == st.history_stack[n][2]
             d == DataSet(st.data, filename, old_tags)
             txt_path == TxtPath(filename)
             content == Join(TAG_SEPARATOR, old_tags)
         IN IF txt_path \notin bad
            THEN [st |-> [data |-> d,
                          tag_frequency |-> RecalculateFrequency(d),
                          tag_keys |-> FrequencyKeys(d, listing),
                          history_stack |-> st.history_stack,
                          files |-> [st.files EXCEPT ![txt_path] = content],
                          writes |-> Append(st.writes, <<filename, TRUE>>)],
                  ret |-> filename]
            ELSE [st |-> [data |-> d,
                          tag_frequency |-> st.tag_frequency,
                          tag_keys |-> st.tag_keys,
                          history_stack |-> st.history_stack,
                          files |-> st.files,
                          writes |-> Append(st.writes, <<filename, FALSE>>)],
                  ret |-> None]

\* undo() in state st
UndoIn(st, bad) ==
    IF st.history_stack = <<>> THEN [st |-> st, ret |-> None]
    ELSE LET n == Len(st.history_stack)
             filename == st.history_stack[n][1]
             old_tags == st.history_stack[n][2]
             popped == SubSeq(st.history_stack, 1, n - 1)
             d == DataSet(st.data, filename, old_tags)
             txt_path == TxtPath(filename)
             content == Join(TAG_SEPARATOR, old_tags)
         IN IF txt_path \notin bad
            THEN [st |-> [data |-> d,
                          tag_frequency |-> RecalculateFrequency(d),
                          tag_keys |-> FrequencyKeys(d, listing),
                          history_stack |-> popped,
                          files |-> [st.files EXCEPT ![txt_path] = content],
                          writes |-> Append(st.writes, <<filename, TRUE>>)],
                  ret |-> filename]
            ELSE [st |-> [data |-> d,
                          tag_frequency |-> st.tag_frequency,
                          tag_keys |-> st.tag_keys,
                          history_stack |-> popped,
                          files |-> st.files,
                          writes |-> Append(st.writes, <<filename, FALSE>>)],
                  ret |-> None]

\* One iteration of a global operation on filename: tags is self.data[filename]
\* after the operation changed that list in place, which is also the list
\* handed to save_tags.
SaveInPlace(st, filename, tags, bad) ==
    SaveTagsIn([st EXCEPT !.data = DataSet(st.data, filename, tags)],
               filename, tags, bad).st

RECURSIVE AddFrom(_, _, _, _, _)
\* the loop of add_tag_globally from self.image_files[i] on
AddFrom(st, count, i, tag, bad) ==
    IF i > Len(image_files) THEN [st |-> st, ret |-> count]
    ELSE LET filename == image_files[i]
             tags == st.data[filename]
         IN IF ~In(tag, tags)
            THEN AddFrom(SaveInPlace(st, filename, Append(tags, tag), bad),
                         count + 1, i + 1, tag, bad)
            ELSE AddFrom(st, count, i + 1, tag, bad)

\* add_tag_globally(tag)
AddTagGloballyIn(st, tag, bad) ==
    LET t == Strip(tag) IN
    IF t = <<>> THEN [st |-> st, ret |-> 0] ELSE AddFrom(st, 0, 1, t, bad)

RECURSIVE RemoveFrom(_, _, _, _, _)
\* the loop of remove_tag_globally from self.image_files[i] on
RemoveFrom(st, count, i, tag, bad) ==
    IF i > Len(image_files) THEN [st |-> st, ret |-> count]
    ELSE LET filename == image_files[i]
             tags == st.data[filename]
         IN IF In(tag, tags)
            THEN RemoveFrom(SaveInPlace(st, filename, RemoveFirst(tag, tags), bad),
                            count + 1, i + 1, tag, bad)
            ELSE RemoveFrom(st, count, i + 1, tag, bad)

\* remove_tag_globally(tag)
RemoveTagGloballyIn(st, tag, bad) ==
    LET t == Strip(tag) IN
    IF t = <<>> THEN [st |-> st, ret |-> 0] ELSE RemoveFrom(st, 0, 1, t, bad)

RECURSIVE RenameFrom(_, _, _, _, _, _)
\* the loop of rename_tag_globally from self.image_files[i] on
RenameFrom(st, count, i, old_tag, new_tag, bad) ==
    IF i > Len(image_files) THEN [st |-> st, ret |-> count]
    ELSE LET filename == image_files[i]
             tags == st.data[filename]
         IN IF In(old_tag, tags)
            THEN LET idx == IndexOf(old_tag, tags) IN
                 RenameFrom(SaveInPlace(st, filename,
                                        [tags EXCEPT ![idx] = new_tag], bad),
                            count + 1, i + 1, old_tag, new_tag, bad)
            ELSE RenameFrom(st, count, i + 1, old_tag, new_tag, bad)

\* rename_tag_globally(old_tag, new_tag)
RenameTagGloballyIn(st, old_tag, new_tag, bad) ==
    LET o == Strip(old_tag)
        n == Strip(new_tag)
    IN IF o = <<>> \/ n = <<>> \/ o = n THEN [st |-> st, ret |-> 0]
       ELSE RenameFrom(st, 0, 1, o, n, bad)

\* the images found by load_data, after self.image_files.sort()
SortedImages(found) == SelectSeq(AllImages, LAMBDA f : f \in found)

\* load_data(folder): every image found gets the tags parsed from its sidecar,
\* or no tags and a new empty sidecar
LoadDataIn(st) ==
    LET d == [f \in disk_images |->
                 IF st.files[TxtPath(f)] = NoFile THEN <<>>
                 ELSE LoadTagsFromContent(st.files[TxtPath(f)])]
        touched == {TxtPath(f) : f \in disk_images}
    IN [st |-> [data |-> d,
                tag_frequency |-> RecalculateFrequency(d),
                tag_keys |-> FrequencyKeys(d, listing),
                history_stack |-> st.history_stack,
                files |-> [p \in DOMAIN st.files |->
                              IF p \in touched /\ st.files[p] = NoFile
                              THEN <<>> ELSE st.files[p]],
                writes |-> st.writes],
        ret |-> Cardinality(disk_images)]

(***************************************************************************)
(* The state machine: DataManager(config), then calls of its methods.      *)
(***************************************************************************)
\* __init__: nothing loaded yet
Init ==
    /\ config \in Configs
    /\ \E folder \in Folders :
          /\ disk_images = folder.images
          /\ listing = folder.listing
          /\ files = folder.files
    /\ unwritable \in Unwritables
    /\ unwritable # {} => files["b.txt"] # NoFile
    /\ image_files = <<>>
    /\ data = <<>>
    /\ tag_frequency = <<>>
    /\ tag_keys = <<>>
    /\ history_stack = <<>>
    /\ last = [op |-> "__init__"]
    /\ base = [data |-> <<>>, history_stack |-> <<>>, call |-> [op |-> "__init__"]]
    /\ run = <<>>
    /\ undone = 0
    /\ all_written = TRUE
    /\ steps = 0
    /\ image_list = <<>>
    /\ categories = <<>>
    /\ uncategorized_tags = <<>>
    /\ tag_renames = <<>>
    /\ undo_stack = <<>>
    /\ redo_stack = <<>>
    /\ menu = NoMenu
    /\ dragged_tag = Nothing
    /\ drag_source_category = None
    /\ dialog = NoDialog
    /\ groups_file = [exists |-> FALSE, images |-> <<>>]

\* a write of the call failed
Failed(writes) == \E i \in 1..Len(writes) : ~writes[i][2]

\* the state after a call that returned r
Commit(r) ==
    /\ data' = r.st.data
    /\ tag_frequency' = r.st.tag_frequency
    /\ tag_keys' = r.st.tag_keys
    /\ history_stack' = r.st.history_stack
    /\ files' = r.st.files
    /\ all_written' = (all_written /\ ~Failed(r.st.writes))
    /\ steps' = steps + 1
    /\ UNCHANGED <<config, disk_images, listing, unwritable, image_files>>
    /\ UNCHANGED orgvars

LoadData ==
    /\ LET r == LoadDataIn(Self) IN
       /\ data' = r.st.data
       /\ tag_frequency' = r.st.tag_frequency
       /\ tag_keys' = r.st.tag_keys
       /\ history_stack' = r.st.history_stack
       /\ files' = r.st.files
       /\ image_files' = SortedImages(disk_images)
       /\ last' = [op |-> "load_data", ret |-> r.ret, writes |-> <<>>,
                   len0 |-> Len(history_stack)]
    /\ base' = [data |-> data, history_stack |-> history_stack, call |-> last']
    /\ run' = <<>>
    /\ undone' = 0
    /\ all_written' = TRUE
    /\ steps' = IF image_files = <<>> THEN steps ELSE steps + 1
    /\ UNCHANGED <<config, disk_images, listing, unwritable>>
    /\ UNCHANGED orgvars

\* the last HISTORY_MAX_DEPTH + 1 entries of s
Window(s) ==
    IF Len(s) > config.HISTORY_MAX_DEPTH + 1 THEN Tail(s) ELSE s

SaveTags(filename, new_tags_list) ==
    /\ filename \in DOMAIN data
    /\ LET r == SaveTagsIn(Self, filename, new_tags_list, unwritable) IN
       /\ Commit(r)
       /\ last' = [op |-> "save_tags", filename |-> filename,
                   arg |-> new_tags_list, ret |-> r.ret,
                   writes |-> r.st.writes, len0 |-> Len(history_stack)]
       /\ run' = Window(Append(IF last.op = "save_tags" THEN run ELSE <<>>,
                               <<filename, r.st.data>>))
    /\ base' = [data |-> data, history_stack |-> history_stack, call |-> last']
    /\ undone' = 0

Undo ==
    /\ LET r == UndoIn(Self, unwritable) IN
       /\ Commit(r)
       /\ last' = [op |-> "undo", ret |-> r.ret, writes |-> r.st.writes,
                   len0 |-> Len(history_stack)]
    /\ undone' = undone + 1
    /\ UNCHANGED <<base, run>>

\* the bookkeeping of a global operation that returned r
Global(op, arg, r) ==
    /\ Commit(r)
    /\ last' = [op |-> op, arg |-> arg, ret |-> r.ret, writes |-> r.st.writes,
                len0 |-> Len(history_stack)]
    /\ base' = [data |-> data, history_stack |-> history_stack, call |-> last']
    /\ run' = <<>>
    /\ undone' = 0

AddTagGlobally(tag) ==
    Global("add_tag_globally", tag, AddTagGloballyIn(Self, tag, unwritable))

RemoveTagGlobally(tag) ==
    Global("remove_tag_globally", tag,
           RemoveTagGloballyIn(Self, tag, unwritable))

RenameTagGlobally(old_tag, new_tag) ==
    Global("rename_tag_globally", <<old_tag, new_tag>>,
           RenameTagGloballyIn(Self, old_tag, new_tag, unwritable))

\* recalculate_frequency() called on its own
Recalculate ==
    /\ tag_frequency' = RecalculateFrequency(data)
    /\ tag_keys' = FrequencyKeys(data, listing)
    /\ last' = [op |-> "recalculate_frequency", ret |-> None, writes |-> <<>>,
                len0 |-> Len(history_stack)]
    /\ base' = [data |-> data, history_stack |-> history_stack, call |-> last']
    /\ run' = <<>>
    /\ undone' = 0
    /\ steps' = steps + 1
    /\ UNCHANGED <<config, disk_images, listing, files, unwritable,
                   image_files, data, history_stack, all_written>>
    /\ UNCHANGED orgvars

\* the folder has been loaded
Loaded == image_files # <<>>

\* A session: the folder is loaded, then MaxSteps calls at most, in any order.
Next ==
    \/ (~Loaded \/ steps < MaxSteps) /\ LoadData
    \/ Loaded /\ steps < MaxSteps /\
          \E f \in Images, t \in SaveLists : SaveTags(f, t)
    \/ Loaded /\ steps < MaxSteps /\ Undo
    \/ Loaded /\ steps < MaxSteps /\ \E t \in GlobalTags : AddTagGlobally(t)
    \/ Loaded /\ steps < MaxSteps /\ \E t \in GlobalTags : RemoveTagGlobally(t)
    \/ Loaded /\ steps < MaxSteps /\
          \E p \in RenamePairs : RenameTagGlobally(p[1], p[2])
    \/ Loaded /\ steps < MaxSteps /\ Recalculate

Spec == Init /\ [][Next]_vars

\* A session of save_tags and undo calls alone, long enough to fill the
\* history, push one entry more and undo until nothing is left.
HistorySteps == 2 * (config.HISTORY_MAX_DEPTH + 1)

InitHistory ==
    /\ Init
    /\ ~config.ENFORCE_LOWERCASE
    /\ disk_images = {"a.jpg", "b.jpg"} /\ files["b.txt"] # NoFile

NextHistory ==
    \/ ~Loaded /\ LoadData
    \/ Loaded /\ steps < HistorySteps /\
          \E f \in Images, t \in PlainLists : SaveTags(f, t)
    \/ Loaded /\ steps < HistorySteps /\ Undo

SpecHistory == InitHistory /\ [][NextHistory]_vars

(***************************************************************************)
(* Properties.                                                             *)
(***************************************************************************)
\* the last call was undo(), made right after a save_tags call
UndoAfterSave == last.op = "undo" /\ undone = 1 /\ base.call.op = "save_tags"

\* the writes of the last call all succeeded
LastWritten == ~Failed(last.writes)

\* C1 as stated: save_tags(image, T) followed at once by undo() gives the
\* image the tag list it had before the save, undo() returns the image, and
\* the history is one entry shorter than before the undo.
C1_SaveUndoReturnsImage ==
    UndoAfterSave =>
        LET f == base.call.filename IN
        /\ data[f] = base.data[f]
        /\ last.ret = f
        /\ Len(history_stack) = last.len0 - 1

\* C1 amended: the same, but undo() returns the image only when its write of
\* the sidecar succeeds; it returns None when that write fails (the list is
\* restored and the entry popped all the same).
C1_SaveUndoRestores ==
    UndoAfterSave =>
        LET f == base.call.filename IN
        /\ data[f] = base.data[f]
        /\ last.ret = (IF LastWritten THEN f ELSE None)
        /\ Len(history_stack) = last.len0 - 1

\* a save that changed the list of its image, undone with a successful write
C1_Witness ==
    /\ UndoAfterSave
    /\ last.ret = base.call.filename
    /\ run[Len(run)][2][base.call.filename] # data[base.call.filename]
    /\ data[base.call.filename] # <<>>

\* C2: the undo history never holds more than HISTORY_MAX_DEPTH entries.
C2_HistoryBounded == Len(history_stack) <= config.HISTORY_MAX_DEPTH

\* a call pushed entries onto a full history
C2_Witness ==
    /\ last.op \in {"save_tags", "add_tag_globally"}
    /\ Len(last.writes) >= 1
    /\ last.len0 = config.HISTORY_MAX_DEPTH
    /\ Len(history_stack) = config.HISTORY_MAX_DEPTH

\* undo() was called after HISTORY_MAX_DEPTH + 1 save_tags calls in a row,
\* with nothing but undo() calls since: run holds those saves, oldest first
UndoAfterSaves ==
    /\ last.op = "undo"
    /\ Len(run) = config.HISTORY_MAX_DEPTH + 1
    /\ undone \in 1..(config.HISTORY_MAX_DEPTH + 1)

\* C3 as stated: after N + 1 saves in a row (N = HISTORY_MAX_DEPTH), the k-th
\* undo() for k <= N succeeds, returns the image of the k-th last save and
\* leaves the data as it was after the save before that one, so that N undos
\* leave the data as the 1st save left it; the (N+1)-th undo() returns None
\* and changes nothing.
C3_UndosSucceedInReverse ==
    UndoAfterSaves =>
        LET n == config.HISTORY_MAX_DEPTH IN
        IF undone <= n
        THEN /\ last.ret = run[n + 2 - undone][1]
             /\ data = run[n + 1 - undone][2]
             /\ Len(history_stack) = n - undone
        ELSE /\ last.ret = None
             /\ last.writes = <<>>
             /\ data = run[1][2]
             /\ history_stack = <<>>

\* C3 amended: the same, but each of the N undos returns the image only when
\* its write of the sidecar succeeds, and None when that write fails; it
\* pops its entry and reverts the data in either case.
C3_UndosRevertInReverse ==
    UndoAfterSaves =>
        LET n == config.HISTORY_MAX_DEPTH IN
        IF undone <= n
        THEN /\ last.ret = (IF LastWritten THEN run[n + 2 - undone][1] ELSE None)
             /\ last.writes[1][1] = run[n + 2 - undone][1]
             /\ data = run[n + 1 - undone][2]
             /\ Len(history_stack) = n - undone
        ELSE /\ last.ret = None
             /\ last.writes = <<>>
             /\ data = run[1][2]
             /\ history_stack = <<>>

\* three saves on both images with a history of two, then three undos
C3_Witness ==
    /\ UndoAfterSaves
    /\ config.HISTORY_MAX_DEPTH >= 2
    /\ undone = config.HISTORY_MAX_DEPTH + 1
    /\ unwritable = {}
    /\ run[2][1] # run[3][1]
    /\ run[1][2] # run[2][2] /\ run[2][2] # run[3][2] /\ run[1][2] # run[3][2]
    /\ data = run[1][2]

(***************************************************************************)
(* Global operations.                                                      *)
(***************************************************************************)
GlobalOps == {"add_tag_globally", "remove_tag_globally", "rename_tag_globally"}

\* the elements of a sequence
Range(seq) == {seq[i] : i \in 1..Len(seq)}

\* number of times x stands in seq
Occurs(x, seq) == Cardinality({i \in 1..Len(seq) : seq[i] = x})

NoDuplicates(seq) == \A i, j \in 1..Len(seq) : seq[i] = seq[j] => i = j

RECURSIVE IsSubseq(_, _)
\* sub is seq with some elements left out
IsSubseq(sub, seq) ==
    IF sub = <<>> THEN TRUE
    ELSE IF seq = <<>> THEN FALSE
    ELSE IF Head(sub) = Head(seq) THEN IsSubseq(Tail(sub), Tail(seq))
    ELSE IsSubseq(sub, Tail(seq))

\* the images, in the order of self.image_files, whose list held tag before
\* the last call that was not undo()
Holders(tag) == SelectSeq(image_files, LAMBDA f : In(tag, base.data[f]))

\* the filenames of the k newest undo entries, oldest first
NewestEntries(k) ==
    [j \in 1..k |-> history_stack[Len(history_stack) - k + j][1]]

\* C4 as stated: a global operation that changes k <= HISTORY_MAX_DEPTH images
\* pushes k undo entries, each with the list its image had before the
\* operation, and k undo() calls give every image that list back.
C4_GlobalPushesOldLists ==
    (base.call.op \in GlobalOps /\ base.call.ret <= config.HISTORY_MAX_DEPTH) =>
        LET k == base.call.ret IN
        /\ undone = 0 =>
              \A j \in 1..k :
                 LET entry == history_stack[Len(history_stack) - k + j] IN
                 entry[2] = base.data[entry[1]]
        /\ undone = k => \A f \in DOMAIN base.data : data[f] = base.data[f]

\* C5: when no write has failed since load_data, or the last call wrote and
\* all its writes succeeded, tag_frequency[t] is the number of places where t
\* stands in the tag lists, and it has no other key.
C5_FrequencyIsCount ==
    (all_written \/ (last.writes # <<>> /\ LastWritten)) =>
        /\ \A t \in DOMAIN tag_frequency :
              /\ tag_frequency[t] > 0
              /\ tag_frequency[t] =
                    Cardinality(UNION {{<<f, i>> : i \in {j \in 1..Len(data[f]) :
                                                              data[f][j] = t}} :
                                       f \in DOMAIN data})
        /\ \A f \in DOMAIN data : Range(data[f]) \subseteq DOMAIN tag_frequency

\* a successful write, after an earlier one failed, of lists in which a tag
\* stands more than once
C5_Witness ==
    /\ ~all_written
    /\ last.op \in {"save_tags", "undo"}
    /\ last.writes # <<>> /\ LastWritten
    /\ \E t \in DOMAIN tag_frequency : tag_frequency[t] >= 3
    /\ \E f \in DOMAIN data : ~NoDuplicates(data[f])

\* dedupFold: every tag trimmed and, with folding on, folded to lower case;
\* then the empty ones dropped and the first occurrence of each kept
DedupFold(tags, lowercase) ==
    LET fold(t) == IF lowercase THEN Lower(Strip(t)) ELSE Strip(t)
        folded == [i \in 1..Len(tags) |-> fold(tags[i])]
    IN FirstOccurrences(SelectSeq(folded, LAMBDA t : t # <<>>), {})

\* C6 as stated: the list save_tags stores has no duplicate, no empty and no
\* untrimmed tag, is all lower case when folding is on, and holds the first
\* occurrence of each tag of the input, in input order.
C6_SavedListIsDedupFold ==
    last.op = "save_tags" =>
        LET stored == data[last.filename] IN
        /\ NoDuplicates(stored)
        /\ \A i \in 1..Len(stored) :
              /\ stored[i] # <<>>
              /\ Strip(stored[i]) = stored[i]
              /\ config.ENFORCE_LOWERCASE => Lower(stored[i]) = stored[i]
        /\ stored = DedupFold(last.arg, config.ENFORCE_LOWERCASE)

\* C7 as stated: parsing what save_tags wrote gives the list it stored, and
\* normalising the stored list again changes nothing.
C7_RoundTrip ==
    last.op = "save_tags" =>
        LET stored == data[last.filename] IN
        /\ LoadTagsFromContent(Join(TAG_SEPARATOR, stored)) = stored
        /\ last.ret => LoadTagsFromContent(files[TxtPath(last.filename)]) = stored
        /\ CleanTags(stored, config.ENFORCE_LOWERCASE) = stored

\* the last call was remove_tag_globally or add_tag_globally with a tag
\* that is not blank
GlobalCall(op) == last.op = op /\ Strip(last.arg) # <<>>

\* C8 as stated: remove_tag_globally(tag) returns the number of images that
\* held tag; afterwards no list holds tag, the other tags of every image are
\* in the order they were in, and an image that did not hold tag keeps its
\* list and gets no undo entry.
C8_RemoveEverywhere ==
    GlobalCall("remove_tag_globally") =>
        LET tag == Strip(last.arg) IN
        /\ last.ret = Len(Holders(tag))
        /\ \A f \in DOMAIN data :
              /\ ~In(tag, data[f])
              /\ IsSubseq(data[f], base.data[f])
              /\ ~In(tag, base.data[f]) => data[f] = base.data[f]
        /\ last.ret <= config.HISTORY_MAX_DEPTH =>
              NewestEntries(last.ret) = Holders(tag)

\* C9 as stated: add_tag_globally(tag) makes tag the last element of every
\* list that lacked it, keeps every list that held it, returns the number of
\* lists that changed, and afterwards tag stands exactly once in every list.
C9_AddEverywhereOnce ==
    GlobalCall("add_tag_globally") =>
        LET tag == Strip(last.arg) IN
        /\ \A f \in DOMAIN data :
              /\ ~In(tag, base.data[f]) =>
                    data[f] # <<>> /\ data[f][Len(data[f])] = tag
              /\ In(tag, base.data[f]) => data[f] = base.data[f]
              /\ Occurs(tag, data[f]) = 1
        /\ last.ret = Cardinality({f \in DOMAIN data : data[f] # base.data[f]})

\* the last call was rename_tag_globally with arguments it accepts
RenameCall ==
    /\ last.op = "rename_tag_globally"
    /\ Strip(last.arg[1]) # <<>> /\ Strip(last.arg[2]) # <<>>
    /\ Strip(last.arg[1]) # Strip(last.arg[2])

\* tags with new_tag at every index where old_tag stands
Renamed(tags, old_tag, new_tag) ==
    [i \in 1..Len(tags) |-> IF tags[i] = old_tag THEN new_tag ELSE tags[i]]

\* C10: rename_tag_globally(old, new) changes exactly the images whose list
\* holds old (compared exactly); in each of them new stands at every index
\* where old stood and every other tag stays where it was; the other images
\* (those that hold old in another letter case among them) are not changed,
\* get no undo entry and are not counted; the number of changed images is
\* returned.
C10_RenameInPlace ==
    RenameCall =>
        LET old_tag == Strip(last.arg[1])
            new_tag == Strip(last.arg[2])
        IN /\ \A f \in DOMAIN data :
                 /\ In(old_tag, base.data[f]) =>
                       data[f] = Renamed(base.data[f], old_tag, new_tag)
                 /\ ~In(old_tag, base.data[f]) => data[f] = base.data[f]
           /\ last.ret = Len(Holders(old_tag))
           /\ last.ret = Cardinality({f \in DOMAIN data : data[f] # base.data[f]})
           /\ last.ret <= config.HISTORY_MAX_DEPTH =>
                 NewestEntries(last.ret) = Holders(old_tag)

(***************************************************************************)
(* CategoryOrganizer (src/category_organizer.py): pure parts.              *)
(***************************************************************************)
\* key in d, for a dict kept as the sequence of its items
DictHas(d, key) == \E i \in 1..Len(d) : d[i][1] = key

\* d.get(key, default)
DictGet(d, key, default) ==
    IF DictHas(d, key)
    THEN d[CHOOSE i \in 1..Len(d) : d[i][1] = key][2]
    ELSE default

\* d[key] = value: a key the dict holds keeps its place, a new one goes last
DictSet(d, key, value) ==
    IF DictHas(d, key)
    THEN [i \in 1..Len(d) |-> IF d[i][1] = key THEN <<key, value>> ELSE d[i]]
    ELSE Append(d, <<key, value>>)

\* del d[key]
DictDel(d, key) == SelectSeq(d, LAMBDA item : item[1] # key)

\* list(d.keys())
DictKeys(d) == [i \in 1..Len(d) |-> d[i][1]]

RECURSIVE SplitOn(_, _, _, _)
\* s.split(sep) for a separator of one character: cur is the piece being
\* read, i the next character
SplitOn(s, sep, i, cur) ==
    IF i > Len(s) THEN <<cur>>
    ELSE IF s[i] = sep THEN <<cur>> \o SplitOn(s, sep, i + 1, <<>>)
    ELSE SplitOn(s, sep, i + 1, Append(cur, s[i]))

\* s.find(part, start), positions counted from 0; -1 when part is not found
Find(s, part, start) ==
    LET hits == {p \in start..(Len(s) - Len(part)) :
                    SubSeq(s, p + 1, p + Len(part)) = part}
    IN IF hits = {} THEN -1 ELSE CHOOSE p \in hits : \A q \in hits : p <= q

RECURSIVE MatchPartsUnanchored(_, _, _, _, _)
\* the loop of _match_pattern without the test that the first part of a
\* pattern with no leading wildcard is found at position 0
MatchPartsUnanchored(tag_lower, parts, i, current_pos, starts_with_wildcard) ==
    IF i >= Len(parts) THEN current_pos
    ELSE LET part == parts[i + 1] IN
         IF part = <<>>
         THEN MatchPartsUnanchored(tag_lower, parts, i + 1, current_pos,
                                   starts_with_wildcard)
         ELSE LET pos == Find(tag_lower, part, current_pos) IN
              IF pos = -1 THEN -1
              ELSE MatchPartsUnanchored(tag_lower, parts, i + 1, pos + Len(part),
                                        starts_with_wildcard)

RECURSIVE MatchParts(_, _, _, _, _)
\* the loop of _match_pattern over parts from index i (counted from 0) on:
\* the value of current_pos after the loop, or -1 when the loop returned False
MatchParts(tag_lower, parts, i, current_pos, starts_with_wildcard) ==
    IF i >= Len(parts) THEN current_pos
    ELSE LET part == parts[i + 1] IN
         IF part = <<>>
         THEN MatchParts(tag_lower, parts, i + 1, current_pos, starts_with_wildcard)
         ELSE LET pos == Find(tag_lower, part, current_pos) IN
              IF pos = -1 THEN -1
              ELSE IF i = 0 /\ ~starts_with_wildcard /\ pos # 0 THEN -1
              ELSE MatchParts(tag_lower, parts, i + 1, pos + Len(part),
                              starts_with_wildcard)

\* _match_pattern(tag, pattern)
MatchPattern(tag, pattern) ==
    LET tag_lower == Lower(tag)
        pattern_lower == Lower(pattern)
    IN IF ~In("*", pattern_lower) THEN tag_lower = pattern_lower
       ELSE LET parts0 == SplitOn(pattern_lower, "*", 1, <<>>)
                starts_with_wildcard == parts0[1] = <<>>
                parts1 == IF starts_with_wildcard THEN Tail(parts0) ELSE parts0
                ends_with_wildcard == parts1[Len(parts1)] = <<>>
                parts == IF ends_with_wildcard
                         THEN SubSeq(parts1, 1, Len(parts1) - 1) ELSE parts1
            IN IF parts = <<>> THEN TRUE
               ELSE LET current_pos ==
                            MatchParts(tag_lower, parts, 0, 0, starts_with_wildcard)
                    IN /\ current_pos # -1
                       /\ (ends_with_wildcard \/ current_pos = Len(tag_lower))

(***************************************************************************)
(* CategoryOrganizer: configuration and inputs.                            *)
(***************************************************************************)
\* The categories of .lora_tagger_categories.json, in definition order, as
\* _load_category_config reads them (the description, which no method reads,
\* left out).  P matches "a", "A" and every tag that ends in "c"; Q matches
\* every tag that begins with "a" or "A"; "b" matches no keyword.
CategoryConfig ==
    << [name |-> "P", auto_keywords |-> << <<"*", "c">>, <<"a">> >>],
       [name |-> "Q", auto_keywords |-> << <<"a", "*">> >>] >>

CategoryNames == {CategoryConfig[i].name : i \in 1..Len(CategoryConfig)}

\* simpledialog.askstring returning None: the dialog was cancelled (no text
\* typed is this sequence)
NoText == <<"NoText">>

\* what the dialog of _add_tag_to_category returns
TypedTags == {NoText, <<" ">>, <<"a">>, <<" ", "c">>}

\* what the dialog of _rename_tag_inline returns
TypedNames == {NoText, <<" ">>, <<" ", "a">>, <<"b">>}

\* tag arguments that add_tag_globally and remove_tag_globally reject
BlankTags == {<<>>, <<" ">>}

\* (old_tag, new_tag) arguments that rename_tag_globally rejects
BlankPairs ==
    { << <<>>, <<"b">> >>, << <<"a">>, <<" ">> >>,
      << <<"b">>, <<"b", " ">> >> }

(***************************************************************************)
(* CategoryOrganizer: methods, as functions of the state they read.        *)
(***************************************************************************)
\* the fields of the organizer that its methods read and write
Organizer == [categories |-> categories,
              uncategorized_tags |-> uncategorized_tags,
              tag_renames |-> tag_renames,
              undo_stack |-> undo_stack,
              redo_stack |-> redo_stack]

\* the state that _push_to_undo, _undo and _redo copy
Snapshot(o) == [categories |-> o.categories,
                uncategorized_tags |-> o.uncategorized_tags,
                tag_renames |-> o.tag_renames]

\* _push_to_undo
PushToUndo(o) ==
    [o EXCEPT !.undo_stack = Append(@, Snapshot(o)), !.redo_stack = <<>>]

\* data_manager.get_tags(filename)
GetTags(filename) == DataGet(data, filename)

\* _load_category_config: every category of the file, with no tags
LoadCategoryConfig ==
    [i \in 1..Len(CategoryConfig) |->
        [name |-> CategoryConfig[i].name,
         auto_keywords |-> CategoryConfig[i].auto_keywords,
         tags |-> <<>>]]

\* the tags of all categories
CategorizedTags(cats) == UNION {Range(cats[i].tags) : i \in 1..Len(cats)}

\* _populate_uncategorized: the items of the Counter of all tags of the
\* images of the list, those of the tags that are in a category left out
PopulateUncategorized(images, cats) ==
    LET all == Concat([f \in Range(images) |-> GetTags(f)], images, 1)
        keys == FirstOccurrences(all, {})
    IN SelectSeq([i \in 1..Len(keys) |-> <<keys[i], Occurs(keys[i], all)>>],
                 LAMBDA item : item[1] \notin CategorizedTags(cats))

\* the categories with the tag list of the one named category_name replaced
\* by tags
SetCategoryTags(cats, category_name, tags) ==
    [i \in 1..Len(cats) |->
        IF cats[i].name = category_name /\
           \A j \in 1..(i - 1) : cats[j].name # category_name
        THEN [cats[i] EXCEPT !.tags = tags] ELSE cats[i]]

\* the tag list of the first category named category_name
CategoryTags(cats, category_name) ==
    cats[CHOOSE i \in 1..Len(cats) :
            cats[i].name = category_name /\
            \A j \in 1..(i - 1) : cats[j].name # category_name].tags

\* _add_tag_to_category(category_name), the dialog returning new_tag
AddTagToCategoryIn(o, category_name, new_tag) ==
    IF new_tag = NoText \/ new_tag = <<>> \/ Strip(new_tag) = <<>> THEN o
    ELSE LET t == Strip(new_tag)
             pushed == PushToUndo(o)
             tags == CategoryTags(o.categories, category_name)
         IN [pushed EXCEPT
                !.categories =
                    IF In(t, tags) THEN @
                    ELSE SetCategoryTags(@, category_name, Append(tags, t)),
                !.uncategorized_tags = DictDel(@, t)]

\* _remove_from_category(tag, category_name)
RemoveFromCategoryIn(o, tag, category_name) ==
    LET pushed == PushToUndo(o)
        tags == CategoryTags(o.categories, category_name)
        count == Cardinality({i \in 1..Len(image_list) :
                                 In(tag, GetTags(image_list[i]))})
    IN [pushed EXCEPT
           !.categories =
               IF In(tag, tags)
               THEN SetCategoryTags(@, category_name, RemoveFirst(tag, tags))
               ELSE @,
           !.uncategorized_tags =
               IF DictHas(@, tag) THEN @ ELSE DictSet(@, tag, count)]

\* _rename_tag_inline(original_tag), the dialog returning new_name
RenameTagInlineIn(o, original_tag, new_name) ==
    IF new_name # NoText /\ new_name # <<>> /\ Strip(new_name) # <<>> /\
       new_name # original_tag
    THEN [PushToUndo(o) EXCEPT
             !.tag_renames = DictSet(@, original_tag, Strip(new_name))]
    ELSE o

\* the least number of a set of numbers, default when the set is empty
Least(numbers, default) ==
    IF numbers = {} THEN default
    ELSE CHOOSE n \in numbers : \A m \in numbers : n <= m

\* the index (counted from 0) of the first keyword that matches tag;
\* Len(keywords), which is above every index, stands for float('inf')
KeywordIndex(tag, keywords) ==
    Least({idx \in 0..(Len(keywords) - 1) : MatchPattern(tag, keywords[idx + 1])},
          Len(keywords))

\* insert_pos when a tag is put in front of the tags whose keyword is the
\* same as its own, too
InsertPosNotAfter(tags, matched_keyword_index, keywords) ==
    Least({i \in 0..(Len(tags) - 1) :
              matched_keyword_index <= KeywordIndex(tags[i + 1], keywords)},
          Len(tags))

\* insert_pos of _auto_categorize (counted from 0): the place of the first
\* tag of the list whose keyword comes after the one that matched
InsertPos(tags, matched_keyword_index, keywords) ==
    Least({i \in 0..(Len(tags) - 1) :
              matched_keyword_index < KeywordIndex(tags[i + 1], keywords)},
          Len(tags))

\* list.insert(pos, x), pos counted from 0: a position past the end is the
\* end
Insert(seq, pos, x) ==
    IF pos >= Len(seq) THEN Append(seq, x)
    ELSE SubSeq(seq, 1, pos) \o <<x>> \o SubSeq(seq, pos + 1, Len(seq))

\* the index of the first category with a keyword that matches tag, 0 when
\* there is none
MatchingCategory(tag, cats) ==
    Least({c \in 1..Len(cats) :
              KeywordIndex(tag, cats[c].auto_keywords)
                  < Len(cats[c].auto_keywords)},
          0)

\* the body of the loop of _auto_categorize for a tag that matches a keyword
\* of category, the c-th one: the tag goes into its list at insert_pos unless
\* the list holds it, and leaves the uncategorized tags
PlaceTag(o, tag, c, category) ==
    [o EXCEPT
        !.categories =
            IF In(tag, category.tags) THEN @
            ELSE [@ EXCEPT ![c].tags =
                     Insert(@, InsertPos(category.tags,
                                         KeywordIndex(tag, category.auto_keywords),
                                         category.auto_keywords),
                            tag)],
        !.uncategorized_tags = DictDel(@, tag)]

RECURSIVE AutoCategorizeFrom(_, _, _, _)
\* the loop of _auto_categorize from tags_to_categorize[i] on; the result is
\* the organizer and categorized_count
AutoCategorizeFrom(o, tags_to_categorize, i, categorized_count) ==
    IF i > Len(tags_to_categorize)
    THEN [o |-> o, categorized_count |-> categorized_count]
    ELSE IF MatchingCategory(tags_to_categorize[i], o.categories) = 0
    THEN AutoCategorizeFrom(o, tags_to_categorize, i + 1, categorized_count)
    ELSE AutoCategorizeFrom(
             PlaceTag(o, tags_to_categorize[i],
                      MatchingCategory(tags_to_categorize[i], o.categories),
                      o.categories[MatchingCategory(tags_to_categorize[i],
                                                    o.categories)]),
             tags_to_categorize, i + 1, categorized_count + 1)

\* _auto_categorize
AutoCategorizeIn(o) ==
    AutoCategorizeFrom(PushToUndo(o), DictKeys(o.uncategorized_tags), 1, 0)

\* _undo
OrganizerUndoIn(o) ==
    IF o.undo_stack = <<>> THEN o
    ELSE LET previous_state == o.undo_stack[Len(o.undo_stack)] IN
         [categories |-> previous_state.categories,
          uncategorized_tags |-> previous_state.uncategorized_tags,
          tag_renames |-> previous_state.tag_renames,
          undo_stack |-> SubSeq(o.undo_stack, 1, Len(o.undo_stack) - 1),
          redo_stack |-> Append(o.redo_stack, Snapshot(o))]

\* _redo
OrganizerRedoIn(o) ==
    IF o.redo_stack = <<>> THEN o
    ELSE LET next_state == o.redo_stack[Len(o.redo_stack)] IN
         [categories |-> next_state.categories,
          uncategorized_tags |-> next_state.uncategorized_tags,
          tag_renames |-> next_state.tag_renames,
          undo_stack |-> Append(o.undo_stack, Snapshot(o)),
          redo_stack |-> SubSeq(o.redo_stack, 1, Len(o.redo_stack) - 1)]

(***************************************************************************)
(* CategoryOrganizer: the other handlers that change its state, the groups *)
(* file and the commit.                                                    *)
(***************************************************************************)
RECURSIVE Flatten(_, _)
\* the lists lists[i], lists[i + 1], ... one after the other
Flatten(lists, i) ==
    IF i > Len(lists) THEN <<>> ELSE lists[i] \o Flatten(lists, i + 1)

\* category['tags'] without tag, when it holds it
WithoutTag(cats, category_name, tag) ==
    IF In(tag, CategoryTags(cats, category_name))
    THEN SetCategoryTags(cats, category_name,
                         RemoveFirst(tag, CategoryTags(cats, category_name)))
    ELSE cats

\* category['tags'] with tag at index pos (counted from 0), unless it holds it
WithTagAt(cats, category_name, tag, pos) ==
    IF In(tag, CategoryTags(cats, category_name)) THEN cats
    ELSE SetCategoryTags(cats, category_name,
                         Insert(CategoryTags(cats, category_name), pos, tag))

\* category['tags'] with tag appended, unless it holds it
WithTag(cats, category_name, tag) ==
    WithTagAt(cats, category_name, tag, Len(CategoryTags(cats, category_name)))

\* _move_tag_to_category(tag, from_category, to_category)
MoveTagToCategoryIn(o, tag, from_category, to_category) ==
    [PushToUndo(o) EXCEPT
        !.categories = WithTag(WithoutTag(@, from_category, tag), to_category, tag)]

\* _add_uncategorized_to_category(tag, category_name)
AddUncategorizedToCategoryIn(o, tag, category_name) ==
    [PushToUndo(o) EXCEPT
        !.uncategorized_tags = DictDel(@, tag),
        !.categories = WithTag(@, category_name, tag)]

\* the categories after the dragged tag has left its source category
DragSourceLeft(cats, tag, source_category) ==
    IF source_category = None THEN cats
    ELSE WithoutTag(cats, source_category, tag)

\* target_idx of _end_drag_category for a drop on the pill of target_tag, on
\* its right half when right holds
TargetIdx(tags, target_tag, right) ==
    (IF In(target_tag, tags) THEN IndexOf(target_tag, tags) - 1 ELSE Len(tags))
    + (IF right THEN 1 ELSE 0)

\* _end_drag_category with self.dragged_tag and self.drag_source_category
\* as the press has set them (None: the tag was dragged out of the
\* uncategorized list); the tag is dropped on the pill of target_tag in the
\* category target_category_name, or, with target_tag = Nothing, on the
\* empty part of that category, or, with target_category_name = None,
\* outside the categories
EndDragCategoryIn(o, tag, source_category, target_category_name, target_tag, right) ==
    IF tag = Nothing \/ target_category_name = None THEN o ELSE
    [PushToUndo(o) EXCEPT
        !.uncategorized_tags =
            IF source_category = None THEN DictDel(@, tag) ELSE @,
        !.categories =
            IF target_tag = Nothing
            THEN WithTag(DragSourceLeft(@, tag, source_category),
                         target_category_name, tag)
            ELSE WithTagAt(
                     DragSourceLeft(@, tag, source_category),
                     target_category_name, tag,
                     TargetIdx(CategoryTags(
                                   DragSourceLeft(@, tag,
                                                  source_category),
                                   target_category_name),
                               target_tag, right))]

\* reverse_renames of apply_changes: {v: k for k, v in tag_renames.items()},
\* a later item with the same renamed name replaces an earlier one
ReverseRenames(renames) ==
    [v \in {renames[i][2] : i \in 1..Len(renames)} |->
        renames[CHOOSE i \in 1..Len(renames) :
                   /\ renames[i][2] = v
                   /\ \A j \in (i + 1)..Len(renames) : renames[j][2] # v][1]]

RECURSIVE NewOrderOfLines(_, _, _, _)
\* new_order of apply_changes: the original tag of every line that names a
\* tag of the category, by its own name or by its new one
NewOrderOfLines(new_lines, i, reverse_renames, original_tags_set) ==
    IF i > Len(new_lines) THEN <<>>
    ELSE (IF new_lines[i] \in DOMAIN reverse_renames
          THEN IF reverse_renames[new_lines[i]] \in original_tags_set
               THEN <<reverse_renames[new_lines[i]]>> ELSE <<>>
          ELSE IF new_lines[i] \in original_tags_set
               THEN <<new_lines[i]>> ELSE <<>>)
         \o NewOrderOfLines(new_lines, i + 1, reverse_renames, original_tags_set)

\* new_order of apply_changes for the text lines: its lines are trimmed and
\* the blank ones left out; original_tags_set is the set taken when the
\* dialog was opened, self.tag_renames is read now
EditedOrder(o, original_tags_set, lines) ==
    NewOrderOfLines(StripAll(lines), 1, ReverseRenames(o.tag_renames),
                    original_tags_set)

\* the text is accepted by apply_changes: its lines name exactly the tags
\* that the category held when the dialog d was opened
Accepted(o, d, lines) ==
    Range(EditedOrder(o, d.original_tags_set, lines)) = d.original_tags_set

\* apply_changes of the dialog d, the text widget holding lines: refused
\* unless the text is accepted; the new order is stored in the dict that
\* the dialog took out of self.categories when it was opened, which _undo
\* and _redo have replaced by a copy when they ran in between
ApplyChangesIn(o, d, lines) ==
    IF ~Accepted(o, d, lines) THEN o
    ELSE [PushToUndo(o) EXCEPT
             !.categories =
                 IF d.attached
                 THEN SetCategoryTags(@, d.category_name,
                          EditedOrder(o, d.original_tags_set, lines))
                 ELSE @]

\* the text the dialog of _edit_category_as_text shows: the tags of the
\* category under their display names, one on a line
ShownLines(o, category_name) ==
    [i \in 1..Len(CategoryTags(o.categories, category_name)) |->
        DictGet(o.tag_renames, CategoryTags(o.categories, category_name)[i],
                CategoryTags(o.categories, category_name)[i])]

\* _edit_category_as_text(category_name) up to the event loop: the dialog
\* with the dict of the category, the set of its tags and the text shown
EditCategoryAsTextIn(o, category_name) ==
    [open |-> TRUE, category_name |-> category_name,
     original_tags_set |-> Range(CategoryTags(o.categories, category_name)),
     text |-> ShownLines(o, category_name),
     attached |-> TRUE]

(***************************************************************************)
(* The groups file.                                                        *)
(***************************************************************************)
\* the tags of all categories, category by category
AllCategoryTags(cats) == Flatten([i \in 1..Len(cats) |-> cats[i].tags], 1)

\* cat_tags of _save_project_groups: the final names of the tags of the
\* category that the image holds under their own or their final name
CatTags(tags, current_tags, renames) ==
    LET kept == SelectSeq(tags, LAMBDA tag :
                    In(tag, current_tags) \/
                    In(DictGet(renames, tag, tag), current_tags))
    IN [i \in 1..Len(kept) |-> DictGet(renames, kept[i], kept[i])]

\* img_categories of _save_project_groups: the (name, cat_tags) items of
\* the categories with a tag on the image
ImgCategories(cats, current_tags, renames) ==
    SelectSeq([i \in 1..Len(cats) |->
                  <<cats[i].name, CatTags(cats[i].tags, current_tags, renames)>>],
              LAMBDA item : item[2] # <<>>)

RECURSIVE ImagesData(_, _, _, _, _)
\* images_data of _save_project_groups from image_list[i] on
ImagesData(images, i, cats, renames, d) ==
    IF i > Len(images) THEN <<>>
    ELSE (IF ImgCategories(cats, DataGet(d, images[i]), renames) = <<>>
          THEN <<>>
          ELSE << <<images[i],
                    ImgCategories(cats, DataGet(d, images[i]), renames)>> >>)
         \o ImagesData(images, i + 1, cats, renames, d)

\* the path of the groups file
GroupsPath == "groups.json"

\* _save_project_groups: the content of the groups file after it; bad: the
\* files that cannot be written
SaveProjectGroups(o, images, d, old, bad) ==
    IF GroupsPath \in bad THEN old
    ELSE [exists |-> TRUE,
          images |-> ImagesData(images, 1, o.categories, o.tag_renames, d)]

\* the (tag, category name) pairs of the items of one image of the file
PairsOfImage(img_categories) ==
    Flatten([k \in 1..Len(img_categories) |->
                [j \in 1..Len(img_categories[k][2]) |->
                    <<img_categories[k][2][j], img_categories[k][1]>>]], 1)

\* the (tag, category name) pairs of the file for the images of the list,
\* in the order in which _load_project_groups meets them
PairsOfImages(images, images_data) ==
    Flatten([i \in 1..Len(images) |->
                IF DictHas(images_data, images[i])
                THEN PairsOfImage(DictGet(images_data, images[i], <<>>))
                ELSE <<>>], 1)

RECURSIVE TagToCategories(_, _, _)
\* tag_to_categories of _load_project_groups: every tag with the category
\* it was met in first
TagToCategories(pairs, i, acc) ==
    IF i > Len(pairs) THEN acc
    ELSE TagToCategories(pairs, i + 1,
             IF DictHas(acc, pairs[i][1]) THEN acc
             ELSE DictSet(acc, pairs[i][1], pairs[i][2]))

RECURSIVE RestoreTags(_, _, _)
\* the second loop of _load_project_groups: every tag goes to the end of the
\* list of the first category that has the name stored for it
RestoreTags(cats, tag_to_categories, i) ==
    IF i > Len(tag_to_categories) THEN cats
    ELSE RestoreTags(
             IF \E c \in 1..Len(cats) : cats[c].name = tag_to_categories[i][2]
             THEN WithTag(cats, tag_to_categories[i][2], tag_to_categories[i][1])
             ELSE cats,
             tag_to_categories, i + 1)

\* _load_project_groups on the categories of the configuration: nothing
\* when the folder has no groups file
LoadProjectGroups(cats, images, groups) ==
    IF ~groups.exists THEN cats
    ELSE RestoreTags(cats,
                     TagToCategories(PairsOfImages(images, groups.images), 1, <<>>),
                     1)

(***************************************************************************)
(* The commit, and the removal of a tag from the images.                   *)
(***************************************************************************)
RECURSIVE OwnedOrder(_, _, _, _, _)
\* the first loop of _save_categories over the tags of the categories from
\* the i-th on: new_order and used_tags after it
OwnedOrder(category_tags, i, current_tags, renames, acc) ==
    IF i > Len(category_tags) THEN acc
    ELSE OwnedOrder(category_tags, i + 1, current_tags, renames,
             IF In(category_tags[i], current_tags)
             THEN [new_order |-> Append(acc.new_order,
                                    DictGet(renames, category_tags[i],
                                            category_tags[i])),
                   used_tags |-> acc.used_tags \cup {category_tags[i]}]
             ELSE IF In(DictGet(renames, category_tags[i], category_tags[i]),
                        current_tags)
             THEN [new_order |-> Append(acc.new_order,
                                    DictGet(renames, category_tags[i],
                                            category_tags[i])),
                   used_tags |-> acc.used_tags \cup
                                 {DictGet(renames, category_tags[i],
                                          category_tags[i])}]
             ELSE acc)

\* the tag is the new name of a pending rename
IsRenamed(renames, tag) == \E k \in 1..Len(renames) : renames[k][2] = tag

\* renamed_from of _save_categories: the original of the first pending
\* rename whose new name is tag
RenamedFrom(renames, tag) ==
    renames[CHOOSE k \in 1..Len(renames) :
               /\ renames[k][2] = tag
               /\ \A j \in 1..(k - 1) : renames[j][2] # tag][1]

\* the second loop of _save_categories keeps the tag
Remaining(tag, renames, used_tags) ==
    /\ tag \notin used_tags
    /\ IsRenamed(renames, tag) => RenamedFrom(renames, tag) \notin used_tags

\* new_order of _save_categories for an image with current_tags
NewOrder(current_tags, cats, renames) ==
    LET owned == OwnedOrder(AllCategoryTags(cats), 1, current_tags, renames,
                            [new_order |-> <<>>, used_tags |-> {}])
    IN owned.new_order \o
       SelectSeq(current_tags,
                 LAMBDA tag : Remaining(tag, renames, owned.used_tags))

RECURSIVE SaveOrders(_, _, _, _, _)
\* the loop of _save_categories from image_list[i] on, in state st of the
\* data manager
SaveOrders(st, images, i, o, bad) ==
    IF i > Len(images) THEN st
    ELSE SaveOrders(
             SaveTagsIn(st, images[i],
                        NewOrder(DataGet(st.data, images[i]), o.categories,
                                 o.tag_renames),
                        bad).st,
             images, i + 1, o, bad)

\* _save_categories: the organizer, the data manager and the groups file
\* after it
SaveCategoriesIn(o, st, images, groups, bad) ==
    [o |-> PushToUndo(o),
     st |-> SaveOrders(st, images, 1, o, bad),
     groups |-> SaveProjectGroups(o, images,
                                  SaveOrders(st, images, 1, o, bad).data,
                                  groups, bad)]

\* one image of _remove_tag_from_all_images: the list without the tag, or
\* without its display name when the tag has a pending rename, or Nothing
\* when the image holds neither
ListWithout(current_tags, tag, display_tag, has_rename) ==
    IF In(tag, current_tags) THEN RemoveFirst(tag, current_tags)
    ELSE IF In(display_tag, current_tags) /\ has_rename
    THEN RemoveFirst(display_tag, current_tags)
    ELSE current_tags

\* the image is one that _remove_tag_from_all_images saves
Removes(current_tags, tag, display_tag, has_rename) ==
    In(tag, current_tags) \/ (In(display_tag, current_tags) /\ has_rename)

RECURSIVE RemoveFromImages(_, _, _, _, _, _, _)
\* the loop of _remove_tag_from_all_images from image_list[i] on: the state
\* of the data manager after it
RemoveFromImages(st, images, i, tag, display_tag, has_rename, bad) ==
    IF i > Len(images) THEN st
    ELSE RemoveFromImages(
             IF Removes(DataGet(st.data, images[i]), tag, display_tag, has_rename)
             THEN SaveTagsIn(st, images[i],
                             ListWithout(DataGet(st.data, images[i]), tag,
                                         display_tag, has_rename),
                             bad).st
             ELSE st,
             images, i + 1, tag, display_tag, has_rename, bad)

RECURSIVE WithoutTagAnywhere(_, _, _)
\* every category's list without the first occurrence of the tag
WithoutTagAnywhere(cats, tag, i) ==
    IF i > Len(cats) THEN cats
    ELSE WithoutTagAnywhere(
             IF In(tag, cats[i].tags)
             THEN [cats EXCEPT ![i].tags = RemoveFirst(tag, @)] ELSE cats,
             tag, i + 1)

\* _remove_tag_from_all_images(tag), the question answered with response
RemoveTagFromAllImagesIn(o, st, images, tag, response, bad) ==
    IF ~response THEN [o |-> o, st |-> st]
    ELSE [o |-> [o EXCEPT
                    !.categories = WithoutTagAnywhere(@, tag, 1),
                    !.uncategorized_tags = DictDel(@, tag),
                    !.tag_renames = DictDel(@, tag)],
          st |-> RemoveFromImages(st, images, 1, tag,
                                  DictGet(o.tag_renames, tag, tag),
                                  DictHas(o.tag_renames, tag), bad)]

(***************************************************************************)
(* The state machine of the organizer window: CategoryOrganizer(parent,    *)
(* data_manager, image_list, bulk_editor), then the handlers of its        *)
(* buttons, menus and dialogs.                                             *)
(***************************************************************************)
\* number of snapshots the undo stack of the organizer holds at most
MaxSnapshots == 3

\* number of DataManager calls in a session that opens no organizer
MaxEdits == 2

\* an organizer window is open
Opened == image_list # <<>>

\* the state after a handler of the organizer that left it as o
OrgCommit(o) ==
    /\ categories' = o.categories
    /\ uncategorized_tags' = o.uncategorized_tags
    /\ tag_renames' = o.tag_renames
    /\ undo_stack' = o.undo_stack
    /\ redo_stack' = o.redo_stack
    /\ UNCHANGED <<image_list, groups_file, dmvars>>

\* the handler posts no menu, presses no pill and opens or closes no dialog
KeepUi == UNCHANGED <<menu, dragged_tag, drag_source_category, dialog>>

\* the pill of tag stands in the category category_name
HasPill(tag, category_name) == In(tag, CategoryTags(categories, category_name))

\* __init__ on the selected images of the bulk editor: the list sorted by
\* file name, the categories of the configuration with the tags that the
\* groups file of an earlier session stores for these images, every other
\* tag of the images uncategorized
OpenOrganizer(selected_images) ==
    /\ selected_images # {}
    /\ selected_images \subseteq DOMAIN data
    /\ image_list' = SelectSeq(AllImages, LAMBDA f : f \in selected_images)
    /\ categories' = LoadProjectGroups(LoadCategoryConfig, image_list', groups_file)
    /\ uncategorized_tags' = PopulateUncategorized(image_list', categories')
    /\ tag_renames' = <<>>
    /\ undo_stack' = <<>>
    /\ redo_stack' = <<>>
    /\ menu' = NoMenu
    /\ dragged_tag' = Nothing
    /\ drag_source_category' = None
    /\ dialog' = NoDialog
    /\ last' = [op |-> "CategoryOrganizer", writes |-> <<>>]
    /\ UNCHANGED <<groups_file, dmvars>>

AddTagToCategory(category_name, new_tag) ==
    /\ OrgCommit(AddTagToCategoryIn(Organizer, category_name, new_tag))
    /\ last' = [op |-> "_add_tag_to_category",
                arg |-> <<category_name, new_tag>>, writes |-> <<>>]
    /\ KeepUi

\* _remove_from_category(tag, category_name): the command of the x of a pill
\* and of an entry of the menu of a pill, with the tag and the category
\* that the pill or the menu was built with
RemoveFromCategory(tag, category_name) ==
    /\ OrgCommit(RemoveFromCategoryIn(Organizer, tag, category_name))
    /\ last' = [op |-> "_remove_from_category",
                arg |-> <<tag, category_name>>, writes |-> <<>>]
    /\ KeepUi

\* _rename_tag_inline(original_tag), the handler of a double click on the
\* pill of original_tag, the dialog returning new_name
RenameTagInline(original_tag, new_name) ==
    /\ OrgCommit(RenameTagInlineIn(Organizer, original_tag, new_name))
    /\ last' = [op |-> "_rename_tag_inline",
                arg |-> <<original_tag, new_name>>, writes |-> <<>>]
    /\ KeepUi

AutoCategorize ==
    LET r == AutoCategorizeIn(Organizer) IN
    /\ OrgCommit(r.o)
    /\ last' = [op |-> "_auto_categorize", ret |-> r.categorized_count,
                writes |-> <<>>]
    /\ KeepUi

\* the open dialog after self.categories has been replaced by the copy of
\* a snapshot: the dict the dialog holds is no item of the new list
Detached(d) == [d EXCEPT !.attached = FALSE]

OrganizerUndo ==
    /\ OrgCommit(OrganizerUndoIn(Organizer))
    /\ dialog' = IF undo_stack = <<>> THEN dialog ELSE Detached(dialog)
    /\ last' = [op |-> "_undo", writes |-> <<>>]
    /\ UNCHANGED <<menu, dragged_tag, drag_source_category>>

OrganizerRedo ==
    /\ OrgCommit(OrganizerRedoIn(Organizer))
    /\ dialog' = IF redo_stack = <<>> THEN dialog ELSE Detached(dialog)
    /\ last' = [op |-> "_redo", writes |-> <<>>]
    /\ UNCHANGED <<menu, dragged_tag, drag_source_category>>

\* the snapshots kept are fewer than MaxSnapshots
Room == Len(undo_stack) < MaxSnapshots

\* the folder with two tagged images, every sidecar writable
InitOrganizer ==
    /\ Init
    /\ config = [ENFORCE_LOWERCASE |-> FALSE, HISTORY_MAX_DEPTH |-> MaxDepth]
    /\ disk_images = {"a.jpg", "b.jpg"} /\ files["b.txt"] # NoFile
    /\ unwritable = {}

\* A session: the folder is loaded; then either global operations are called,
\* those with arguments that are rejected among them, or the organizer is
\* opened on some images and its handlers run.
NextOrganizer ==
    \/ ~Loaded /\ LoadData
    \/ Loaded /\ ~Opened /\ steps < MaxEdits /\
          \E t \in {<<"a">>} \cup BlankTags : AddTagGlobally(t)
    \/ Loaded /\ ~Opened /\ steps < MaxEdits /\
          \E t \in {<<"b">>} \cup BlankTags : RemoveTagGlobally(t)
    \/ Loaded /\ ~Opened /\ steps < MaxEdits /\
          \E p \in {<< <<"a">>, <<"b">> >>} \cup BlankPairs :
             RenameTagGlobally(p[1], p[2])
    \/ Loaded /\ ~Opened /\ steps = 0 /\
          \E selected_images \in {{"a.jpg"}, {"a.jpg", "b.jpg"}} :
             OpenOrganizer(selected_images)
    \/ Opened /\ Room /\
          \E c \in CategoryNames, t \in TypedTags : AddTagToCategory(c, t)
    \/ Opened /\ Room /\
          \E c \in CategoryNames, t \in CategorizedTags(categories) :
             HasPill(t, c) /\ RemoveFromCategory(t, c)
    \/ Opened /\ Room /\
          \E t \in CategorizedTags(categories), n \in TypedNames :
             RenameTagInline(t, n)
    \/ Opened /\ Room /\ AutoCategorize
    \/ Opened /\ OrganizerUndo
    \/ Opened /\ OrganizerRedo

SpecOrganizer == InitOrganizer /\ [][NextOrganizer]_vars

\* A session of the organizer in which tags are typed into categories, taken
\* out of them and categorized by keyword, one snapshot longer.
NextAuto ==
    \/ ~Loaded /\ LoadData
    \/ Loaded /\ ~Opened /\
          \E selected_images \in {{"a.jpg"}, {"a.jpg", "b.jpg"}} :
             OpenOrganizer(selected_images)
    \/ Opened /\ Len(undo_stack) <= MaxSnapshots /\
          \E c \in CategoryNames, t \in TypedTags : AddTagToCategory(c, t)
    \/ Opened /\ Len(undo_stack) <= MaxSnapshots /\
          \E c \in CategoryNames, t \in CategorizedTags(categories) :
             HasPill(t, c) /\ RemoveFromCategory(t, c)
    \/ Opened /\ Len(undo_stack) <= MaxSnapshots /\ AutoCategorize

SpecAuto == InitOrganizer /\ [][NextAuto]_vars

(***************************************************************************)
(* The other handlers of the organizer window, and the sessions in which   *)
(* they are used.                                                          *)
(***************************************************************************)
\* number of snapshots on the undo and redo stacks together in a session
\* that uses every handler, before the entry of a posted menu, the release
\* of a pressed pill or the Apply of an open dialog adds one more
MaxActions == 2

\* the state after a handler of the organizer that called save_tags: the
\* organizer is left as o, the data manager in state st
OrgDataCommit(o, st) ==
    /\ categories' = o.categories
    /\ uncategorized_tags' = o.uncategorized_tags
    /\ tag_renames' = o.tag_renames
    /\ undo_stack' = o.undo_stack
    /\ redo_stack' = o.redo_stack
    /\ data' = st.data
    /\ tag_frequency' = st.tag_frequency
    /\ tag_keys' = st.tag_keys
    /\ history_stack' = st.history_stack
    /\ files' = st.files
    /\ all_written' = (all_written /\ ~Failed(st.writes))
    /\ steps' = steps + 1
    /\ UNCHANGED <<image_list, config, disk_images, listing, unwritable,
                   image_files, base, run, undone>>

\* the handler leaves the organizer and the data manager as they are
OrgKeep ==
    UNCHANGED <<image_list, categories, uncategorized_tags, tag_renames,
                undo_stack, redo_stack, groups_file, dmvars>>

\* the pill of tag stands in the uncategorized list
HasUncategorizedPill(tag) == DictHas(uncategorized_tags, tag)

\* _show_category_context_menu(event, original_tag, current_category), the
\* handler of a right click on the pill of original_tag in current_category:
\* the menu is built and posted, its entries call their handlers later
ShowCategoryContextMenu(original_tag, current_category) ==
    /\ menu' = [kind |-> "category", tag |-> original_tag,
                category |-> current_category]
    /\ last' = [op |-> "_show_category_context_menu",
                arg |-> <<original_tag, current_category>>, writes |-> <<>>]
    /\ OrgKeep
    /\ UNCHANGED <<dragged_tag, drag_source_category, dialog>>

\* _show_uncategorized_context_menu(event, tag), the handler of a right
\* click on a pill of the uncategorized list
ShowUncategorizedContextMenu(tag) ==
    /\ menu' = [kind |-> "uncategorized", tag |-> tag, category |-> None]
    /\ last' = [op |-> "_show_uncategorized_context_menu", arg |-> <<tag>>,
                writes |-> <<>>]
    /\ OrgKeep
    /\ UNCHANGED <<dragged_tag, drag_source_category, dialog>>

\* _move_tag_to_category(tag, from_category, to_category): the command of
\* an entry of the menu of a pill of a category
MoveTagToCategory(tag, from_category, to_category) ==
    /\ OrgCommit(MoveTagToCategoryIn(Organizer, tag, from_category, to_category))
    /\ last' = [op |-> "_move_tag_to_category",
                arg |-> <<tag, from_category, to_category>>, writes |-> <<>>]
    /\ KeepUi

\* _add_uncategorized_to_category(tag, category_name): the command of an
\* entry of the menu of a pill of the uncategorized list
AddUncategorizedToCategory(tag, category_name) ==
    /\ OrgCommit(AddUncategorizedToCategoryIn(Organizer, tag, category_name))
    /\ last' = [op |-> "_add_uncategorized_to_category",
                arg |-> <<tag, category_name>>, writes |-> <<>>]
    /\ KeepUi

\* _start_drag_category(event, tag, category_name, frame): the pill of tag
\* in category_name is pressed
StartDragCategory(tag, category_name) ==
    /\ dragged_tag' = tag
    /\ drag_source_category' = category_name
    /\ last' = [op |-> "_start_drag_category", arg |-> <<tag, category_name>>,
                writes |-> <<>>]
    /\ OrgKeep
    /\ UNCHANGED <<menu, dialog>>

\* _start_drag_uncategorized(event, tag, frame): the pill of tag in the
\* uncategorized list is pressed
StartDragUncategorized(tag) ==
    /\ dragged_tag' = tag
    /\ drag_source_category' = None
    /\ last' = [op |-> "_start_drag_uncategorized", arg |-> <<tag>>,
                writes |-> <<>>]
    /\ OrgKeep
    /\ UNCHANGED <<menu, dialog>>

\* _end_drag_category(event, source_frame): the button is released over the
\* pill of target_tag in a category, over the empty part of the category, or
\* outside the categories; the tag and its source are those of the press
EndDragCategory(target_category_name, target_tag, right) ==
    /\ OrgCommit(EndDragCategoryIn(Organizer, dragged_tag, drag_source_category,
                                   target_category_name, target_tag, right))
    /\ dragged_tag' = Nothing
    /\ drag_source_category' = None
    /\ last' = [op |-> "_end_drag_category",
                arg |-> <<dragged_tag, drag_source_category,
                          target_category_name, target_tag, right>>,
                writes |-> <<>>]
    /\ UNCHANGED <<menu, dialog>>

\* where the button can be released: over a pill of a category, on its left
\* or right half, over the empty part of a category, outside the categories
DropTargets ==
    {<<c, t, right>> : c \in CategoryNames, t \in CategorizedTags(categories),
                       right \in BOOLEAN}
    \cup {<<c, Nothing, FALSE>> : c \in CategoryNames \cup {None}}

\* a sequence back to front
Reverse(seq) == [i \in 1..Len(seq) |-> seq[Len(seq) + 1 - i]]

\* what the user leaves in the text of the dialog of _edit_category_as_text:
\* the lines shown back to front (with a blank around one), the lines with
\* the first one twice, the lines without the first one
EditedTexts(shown) ==
    IF shown = <<>> THEN {<<>>}
    ELSE {Reverse([shown EXCEPT ![1] = <<" ">> \o @]),
          shown \o <<shown[1]>>,
          Tail(shown)}

\* _edit_category_as_text(category_name), the command of the button of the
\* category: the dialog is opened with the tags the category holds now
EditCategoryAsText(category_name) ==
    /\ dialog' = EditCategoryAsTextIn(Organizer, category_name)
    /\ last' = [op |-> "_edit_category_as_text", arg |-> <<category_name>>,
                writes |-> <<>>]
    /\ OrgKeep
    /\ UNCHANGED <<menu, dragged_tag, drag_source_category>>

\* apply_changes, the command of the Apply button of the open dialog, the
\* text widget holding lines: an accepted text closes the dialog
ApplyChanges(lines) ==
    /\ dialog.open
    /\ OrgCommit(ApplyChangesIn(Organizer, dialog, lines))
    /\ dialog' = IF Accepted(Organizer, dialog, lines) THEN NoDialog ELSE dialog
    /\ last' = [op |-> "apply_changes",
                arg |-> <<dialog.category_name, lines>>, writes |-> <<>>]
    /\ UNCHANGED <<menu, dragged_tag, drag_source_category>>

\* the tags that have a pill in the window
Pills == CategorizedTags(categories) \cup Range(DictKeys(uncategorized_tags))

\* _remove_tag_from_all_images(tag): the command of an entry of the menu of
\* a pill, the confirmation dialog returning response
RemoveTagFromAllImages(tag, response) ==
    /\ LET r == RemoveTagFromAllImagesIn(Organizer, Self, image_list, tag,
                                         response, unwritable)
       IN /\ OrgDataCommit(r.o, r.st)
          /\ last' = [op |-> "_remove_tag_from_all_images",
                      arg |-> <<tag, response>>, writes |-> r.st.writes]
    /\ UNCHANGED groups_file
    /\ KeepUi

\* the Save button
SaveCategories ==
    LET r == SaveCategoriesIn(Organizer, Self, image_list, groups_file, unwritable)
    IN /\ OrgDataCommit(r.o, r.st)
       /\ groups_file' = r.groups
       /\ last' = [op |-> "_save_categories", writes |-> r.st.writes]
       /\ KeepUi

\* there is room for one more snapshot
RoomForAction == Len(undo_stack) + Len(redo_stack) < MaxActions

\* an interaction that was begun can be finished with one snapshot more
RoomToFinish == Len(undo_stack) + Len(redo_stack) <= MaxActions

\* what the dialogs of _add_tag_to_category and _rename_tag_inline return in
\* these sessions
NewTags == {<<"a">>, <<" ", "c">>}

NewNames == {<<"b">>}

\* no handler of the window has written the images
Unsaved == steps = 0

\* a menu of a pill of a category has been posted
CategoryMenu == menu.kind = "category"

\* a menu of a pill of the uncategorized list has been posted
UncategorizedMenu == menu.kind = "uncategorized"

\* no pill is pressed
NoDrag == dragged_tag = Nothing

\* A session that uses every handler of the window, on the images of the
\* folder or on the first of them; the images are written by one handler.
\* The entry of a menu can be chosen, the button released over a target and
\* the text of the dialog applied after other handlers have run; a window
\* has menus posted, or a pill pressed, or a dialog open, not two of these.
NextClassifier ==
    \/ ~Loaded /\ LoadData
    \/ Loaded /\ ~Opened /\
          \E selected_images \in {{"a.jpg"}, {"a.jpg", "b.jpg"}} :
             OpenOrganizer(selected_images)
    \/ Opened /\ RoomForAction /\
          \E c \in CategoryNames, t \in NewTags : AddTagToCategory(c, t)
    \/ Opened /\ RoomForAction /\ NoDrag /\ ~dialog.open /\
          \E c \in CategoryNames, t \in Pills :
             HasPill(t, c) /\ ShowCategoryContextMenu(t, c)
    \/ Opened /\ RoomForAction /\ NoDrag /\ ~dialog.open /\
          \E t \in Pills :
             HasUncategorizedPill(t) /\ ShowUncategorizedContextMenu(t)
    \/ Opened /\ RoomToFinish /\ UncategorizedMenu /\
          \E c \in CategoryNames : AddUncategorizedToCategory(menu.tag, c)
    \/ Opened /\ RoomForAction /\
          \E c \in CategoryNames, t \in Pills :
             HasPill(t, c) /\ RemoveFromCategory(t, c)
    \/ Opened /\ RoomToFinish /\ CategoryMenu /\
          RemoveFromCategory(menu.tag, menu.category)
    \/ Opened /\ RoomToFinish /\ CategoryMenu /\
          \E to \in CategoryNames \ {menu.category} :
             MoveTagToCategory(menu.tag, menu.category, to)
    \/ Opened /\ RoomForAction /\
          \E t \in CategorizedTags(categories), n \in NewNames :
             RenameTagInline(t, n)
    \/ Opened /\ RoomForAction /\ menu = NoMenu /\ ~dialog.open /\
          \E c \in CategoryNames, t \in Pills :
             HasPill(t, c) /\ StartDragCategory(t, c)
    \/ Opened /\ RoomForAction /\ menu = NoMenu /\ ~dialog.open /\
          \E t \in Pills : HasUncategorizedPill(t) /\ StartDragUncategorized(t)
    \/ Opened /\ RoomToFinish /\ ~NoDrag /\
          \E target \in DropTargets :
             /\ target[2] # Nothing => HasPill(target[2], target[1])
             /\ EndDragCategory(target[1], target[2], target[3])
    \/ Opened /\ RoomForAction /\ menu = NoMenu /\ NoDrag /\
          \E c \in CategoryNames : EditCategoryAsText(c)
    \/ Opened /\ RoomToFinish /\
          \E lines \in EditedTexts(dialog.text) : ApplyChanges(lines)
    \/ Opened /\ RoomForAction /\ AutoCategorize
    \/ Opened /\ Unsaved /\ ~(menu.kind = "none") /\
          \E response \in BOOLEAN : RemoveTagFromAllImages(menu.tag, response)
    \/ Opened /\ Unsaved /\ RoomForAction /\ SaveCategories
    \/ Opened /\ OrganizerUndo
    \/ Opened /\ OrganizerRedo

SpecClassifier == InitOrganizer /\ [][NextClassifier]_vars

\* A session in which tags are put into categories, renamed and taken out
\* of them, the categories are committed, and the window is closed after
\* the commit and opened again on the same images or on others.
NextSession ==
    \/ ~Loaded /\ LoadData
    \/ Loaded /\ (~Opened \/ last.op = "_save_categories") /\
          \E selected_images \in {{"a.jpg"}, {"a.jpg", "b.jpg"}} :
             OpenOrganizer(selected_images)
    \/ Opened /\ Unsaved /\ Len(undo_stack) < MaxSnapshots /\
          \E c \in CategoryNames, t \in NewTags : AddTagToCategory(c, t)
    \/ Opened /\ Unsaved /\ Len(undo_stack) < MaxSnapshots /\
          \E t \in Pills :
             HasUncategorizedPill(t) /\ ShowUncategorizedContextMenu(t)
    \/ Opened /\ Unsaved /\ Len(undo_stack) < MaxSnapshots /\
          UncategorizedMenu /\
          \E c \in CategoryNames : AddUncategorizedToCategory(menu.tag, c)
    \/ Opened /\ Unsaved /\ Len(undo_stack) < MaxSnapshots /\
          \E c \in CategoryNames, t \in Pills :
             HasPill(t, c) /\ RemoveFromCategory(t, c)
    \/ Opened /\ Unsaved /\ Len(undo_stack) < MaxSnapshots /\
          \E t \in CategorizedTags(categories), n \in NewNames :
             RenameTagInline(t, n)
    \/ Opened /\ Unsaved /\ Len(undo_stack) <= MaxSnapshots /\ SaveCategories

SpecSession == InitOrganizer /\ [][NextSession]_vars

\* the new names typed in a session of renames: names of tags of the images
RenameNames == {<<"a">>, <<"b">>}

\* A session of renames on all images of the folder: a tag is typed into the
\* first category while that is empty, tags of the images are put into the
\* second one while that is empty, a tag is renamed once, a renamed tag is
\* taken out of its category, and the categories are committed.
NextRename ==
    \/ ~Loaded /\ LoadData
    \/ Loaded /\ ~Opened /\ OpenOrganizer({"a.jpg", "b.jpg"})
    \/ Opened /\ Unsaved /\ CategoryTags(categories, "P") = <<>> /\
          AddTagToCategory("P", <<"c">>)
    \/ Opened /\ Unsaved /\ CategoryTags(categories, "Q") = <<>> /\
          \E t \in Pills :
             /\ HasUncategorizedPill(t) /\ ~DictHas(tag_renames, t)
             /\ ShowUncategorizedContextMenu(t)
    \/ Opened /\ Unsaved /\ CategoryTags(categories, "Q") = <<>> /\
          UncategorizedMenu /\ ~DictHas(tag_renames, menu.tag) /\
          AddUncategorizedToCategory(menu.tag, "Q")
    \/ Opened /\ Unsaved /\
          \E t \in CategorizedTags(categories), n \in RenameNames :
             ~DictHas(tag_renames, t) /\ RenameTagInline(t, n)
    \/ Opened /\ Unsaved /\
          \E t \in Pills :
             /\ DictHas(tag_renames, t) /\ HasPill(t, "Q")
             /\ RemoveFromCategory(t, "Q")
    \/ Opened /\ Unsaved /\ SaveCategories

SpecRename == InitOrganizer /\ [][NextRename]_vars

(***************************************************************************)
(* Properties of the rejected calls and of the bulk operations.            *)
(***************************************************************************)
\* the last call had arguments that the validation is to reject: a global
\* add or remove with a blank tag, a global rename with a blank old or new
\* tag or with old equal to new after trimming, a display rename with no
\* name, a blank name or the name of the tag itself after trimming
Rejected ==
    \/ /\ last.op \in {"add_tag_globally", "remove_tag_globally"}
       /\ Strip(last.arg) = <<>>
    \/ /\ last.op = "rename_tag_globally"
       /\ \/ Strip(last.arg[1]) = <<>>
          \/ Strip(last.arg[2]) = <<>>
          \/ Strip(last.arg[1]) = Strip(last.arg[2])
    \/ /\ last.op = "_rename_tag_inline"
       /\ \/ last.arg[2] = NoText
          \/ Strip(last.arg[2]) = <<>>
          \/ Strip(last.arg[2]) = last.arg[1]

\* C11 as stated: a call that fails validation leaves every tag list, the
\* frequency index, the sidecar files, the undo history, the categories, the
\* uncategorized tags, the pending renames and the undo and redo stacks of
\* the organizer as they were.
C11_RejectedChangesNothing ==
    [][Rejected' =>
          UNCHANGED <<data, tag_frequency, tag_keys, history_stack, files,
                      categories, uncategorized_tags, tag_renames,
                      undo_stack, redo_stack>>]_vars

\* the images a global operation has to change, in the order of
\* self.image_files: those that lacked the tag for an add, those that held
\* it (the old tag) for a remove or a rename
Targets ==
    LET d == base.data IN
    CASE last.op = "add_tag_globally" ->
            SelectSeq(image_files, LAMBDA f : ~In(Strip(last.arg), d[f]))
      [] last.op = "remove_tag_globally" ->
            SelectSeq(image_files, LAMBDA f : In(Strip(last.arg), d[f]))
      [] last.op = "rename_tag_globally" ->
            SelectSeq(image_files, LAMBDA f : In(Strip(last.arg[1]), d[f]))

\* C12 as stated: a global add, remove or rename saves every image it has to
\* change, those after an image whose write failed too, and returns the
\* number of images whose save succeeded.
C12_CountsSuccessfulSaves ==
    (last.op \in GlobalOps /\ ~Rejected) =>
        /\ [i \in 1..Len(last.writes) |-> last.writes[i][1]] = Targets
        /\ last.ret = Cardinality({i \in 1..Len(last.writes) : last.writes[i][2]})

\* C13 as stated: after every save_tags call, one whose file write fails
\* among them, tag_frequency holds the counts recomputed from all tag lists.
C13_SaveRebuildsFrequency ==
    last.op = "save_tags" => tag_frequency = RecalculateFrequency(data)

\* C14 as stated: right after load_data on a DataManager that held undo
\* entries the undo history is empty, self.data holds the images found by the
\* scan and no other, and tag_frequency counts their tags; an undo() called
\* next returns None and writes nothing.
C14_ReloadResets ==
    /\ (last.op = "load_data" /\ last.len0 > 0) =>
          /\ history_stack = <<>>
          /\ DOMAIN data = disk_images
          /\ tag_frequency = RecalculateFrequency(data)
    /\ (last.op = "undo" /\ undone = 1 /\ base.call.op = "load_data"
            /\ base.call.len0 > 0) =>
          /\ last.ret = None
          /\ last.writes = <<>>

(***************************************************************************)
(* DataManager: the queries on the frequency index.                        *)
(***************************************************************************)
\* SIMILARITY_THRESHOLD of main.py
SIMILARITY_THRESHOLD == 2

\* the smallest of three numbers
Min3(x, y, z) == IF x <= y /\ x <= z THEN x ELSE IF y <= z THEN y ELSE z

RECURSIVE LevenshteinRowSubstAlways(_, _, _, _, _)
\* the inner loop with a substitution that costs 1 for equal characters too
LevenshteinRowSubstAlways(c1, s2, j, previous_row, current_row) ==
    IF j >= Len(s2) THEN current_row
    ELSE LET insertions == previous_row[j + 2] + 1
             deletions == current_row[j + 1] + 1
             substitutions == previous_row[j + 1] + 1
         IN LevenshteinRowSubstAlways(c1, s2, j + 1, previous_row,
                                      Append(current_row,
                                             Min3(insertions, deletions,
                                                  substitutions)))

RECURSIVE LevenshteinRow(_, _, _, _, _)
\* the inner loop of _levenshtein_distance from s2[j] on (j counted from 0):
\* current_row, built from previous_row for the character c1 of s1
LevenshteinRow(c1, s2, j, previous_row, current_row) ==
    IF j >= Len(s2) THEN current_row
    ELSE LET c2 == s2[j + 1]
             insertions == previous_row[j + 2] + 1
             deletions == current_row[j + 1] + 1
             substitutions == previous_row[j + 1] + (IF c1 # c2 THEN 1 ELSE 0)
         IN LevenshteinRow(c1, s2, j + 1, previous_row,
                           Append(current_row,
                                  Min3(insertions, deletions, substitutions)))

RECURSIVE LevenshteinRows(_, _, _, _)
\* the outer loop of _levenshtein_distance from s1[i] on (i counted from 0)
LevenshteinRows(s1, s2, i, previous_row) ==
    IF i >= Len(s1) THEN previous_row
    ELSE LevenshteinRows(s1, s2, i + 1,
                         LevenshteinRow(s1[i + 1], s2, 0, previous_row, <<i + 1>>))

\* _levenshtein_distance(s1, s2)
LevenshteinDistance(s1, s2) ==
    LET a == IF Len(s1) < Len(s2) THEN s2 ELSE s1
        b == IF Len(s1) < Len(s2) THEN s1 ELSE s2
    IN IF Len(b) = 0 THEN Len(a)
       ELSE LevenshteinRows(a, b, 0, [k \in 1..(Len(b) + 1) |-> k - 1])[Len(b) + 1]

RECURSIVE MostCommonLastFirst(_, _)
\* most_common() by a sort that turns round the keys with the same count
MostCommonLastFirst(keys, counter) ==
    IF keys = <<>> THEN <<>>
    ELSE LET top == CHOOSE i \in 1..Len(keys) :
                        /\ \A j \in 1..Len(keys) : counter[keys[j]] <= counter[keys[i]]
                        /\ \A j \in (i + 1)..Len(keys) : counter[keys[j]] < counter[keys[i]]
         IN <<<<keys[top], counter[keys[top]]>>>> \o
            MostCommonLastFirst(SubSeq(keys, 1, top - 1) \o
                                SubSeq(keys, top + 1, Len(keys)), counter)

RECURSIVE MostCommon(_, _)
\* Counter.most_common(): the (key, count) items sorted by count, largest
\* first, by a stable sort, so that keys with the same count stay in the
\* order in which the Counter holds them
MostCommon(keys, counter) ==
    IF keys = <<>> THEN <<>>
    ELSE LET top == CHOOSE i \in 1..Len(keys) :
                        /\ \A j \in 1..Len(keys) : counter[keys[j]] <= counter[keys[i]]
                        /\ \A j \in 1..(i - 1) : counter[keys[j]] < counter[keys[i]]
         IN <<<<keys[top], counter[keys[top]]>>>> \o
            MostCommon(SubSeq(keys, 1, top - 1) \o SubSeq(keys, top + 1, Len(keys)),
                       counter)

\* get_all_tags_by_frequency()
GetAllTagsByFrequencyIn(st) == MostCommon(st.tag_keys, st.tag_frequency)

\* the set suggestions without the test global_tag not in current_tags
SuggestionsWithCurrent(st, current_tags) ==
    {global_tag \in Range(st.tag_keys) :
        \E i \in 1..Len(current_tags) :
           LevenshteinDistance(current_tags[i], global_tag)
               <= SIMILARITY_THRESHOLD}

\* the set suggestions of get_local_suggestions(current_tags)
Suggestions(st, current_tags) ==
    {global_tag \in Range(st.tag_keys) :
        /\ ~In(global_tag, current_tags)
        /\ \E i \in 1..Len(current_tags) :
              LevenshteinDistance(current_tags[i], global_tag)
                  <= SIMILARITY_THRESHOLD}

\* What get_local_suggestions(current_tags) can return: the (tag, count)
\* items of the suggestions sorted by count, largest first.  The list that is
\* sorted is built from a set of strings, whose iteration order changes from
\* run to run, and the sort is stable: tags with the same count come in any
\* order.
LocalSuggestions(st, current_tags) ==
    LET s == Suggestions(st, current_tags)
        n == Cardinality(s)
    IN {ret \in [1..n -> {<<t, st.tag_frequency[t]>> : t \in s}] :
           /\ \A i, j \in 1..n : ret[i] = ret[j] => i = j
           /\ \A i \in 1..(n - 1) : ret[i][2] >= ret[i + 1][2]}

\* the state after a call that reads the state and returns ret
Query(op, arg, ret) ==
    /\ last' = [op |-> op, arg |-> arg, ret |-> ret, writes |-> <<>>]
    /\ UNCHANGED <<dmvars, orgvars>>

GetAllTagsByFrequency ==
    Query("get_all_tags_by_frequency", <<>>, GetAllTagsByFrequencyIn(Self))

GetLocalSuggestions(current_tags) ==
    \E ret \in LocalSuggestions(Self, current_tags) :
       Query("get_local_suggestions", current_tags, ret)

\* current_tags arguments of get_local_suggestions: the tags of the image
\* that is being edited
CurrentLists ==
    { << <<"a", "b", "a", "b">> >>,
      << <<"a", "b", "a">>, <<"b">> >>,
      << <<"b">>, <<"B">> >> }

\* new_tags_list arguments of save_tags with a tag of four letters
LongLists == PlainLists \cup { << <<"a", "b", "a", "b">>, <<"a">> >> }

\* A session in which the index is read: the folder is loaded, tag lists are
\* saved and the two queries are called.
NextQuery ==
    \/ ~Loaded /\ LoadData
    \/ Loaded /\ steps < MaxEdits /\
          \E f \in Images, t \in LongLists : SaveTags(f, t)
    \/ Loaded /\ GetAllTagsByFrequency
    \/ Loaded /\ \E c \in CurrentLists : GetLocalSuggestions(c)

SpecQuery == Init /\ [][NextQuery]_vars

(***************************************************************************)
(* Properties of the queries.                                              *)
(***************************************************************************)
\* the code point of a character
CharCode(c) ==
    CASE c = " " -> 32 [] c = "*" -> 42 [] c = "," -> 44
      [] c = "A" -> 65 [] c = "B" -> 66
      [] c = "a" -> 97 [] c = "b" -> 98 [] c = "c" -> 99

RECURSIVE LexLess(_, _)
\* s < t for strings: the case-sensitive lexicographic order
LexLess(s, t) ==
    IF t = <<>> THEN FALSE
    ELSE IF s = <<>> THEN TRUE
    ELSE IF Head(s) = Head(t) THEN LexLess(Tail(s), Tail(t))
    ELSE CharCode(Head(s)) < CharCode(Head(t))

\* ret holds every tag of the index once, with its count, largest count first
ByFrequency(ret) ==
    /\ {ret[i][1] : i \in 1..Len(ret)} = DOMAIN tag_frequency
    /\ \A i, j \in 1..Len(ret) : ret[i][1] = ret[j][1] => i = j
    /\ \A i \in 1..Len(ret) : ret[i][2] = tag_frequency[ret[i][1]]
    /\ \A i, j \in 1..Len(ret) : i < j => ret[i][2] >= ret[j][2]

\* C15 as stated: get_all_tags_by_frequency returns every tag of the index
\* once, sorted by count descending, tags with equal counts in ascending
\* case-sensitive lexicographic order.
C15_TiesLexicographic ==
    last.op = "get_all_tags_by_frequency" =>
        /\ ByFrequency(last.ret)
        /\ \A i, j \in 1..Len(last.ret) :
              (i < j /\ last.ret[i][2] = last.ret[j][2]) =>
                  LexLess(last.ret[i][1], last.ret[j][1])

\* C15 amended: get_all_tags_by_frequency returns every tag of the index
\* once, sorted by count descending; tags with equal counts appear in the
\* order in which the index holds them, which is the order in which its last
\* rebuild met them first: when no write has failed since load_data, going
\* through the images in the order in which the scan of the folder found
\* them, and through the list of each image from its first tag on.
C15_TiesInIndexOrder ==
    /\ last.op = "get_all_tags_by_frequency" =>
          /\ ByFrequency(last.ret)
          /\ \A i, j \in 1..Len(last.ret) :
                (i < j /\ last.ret[i][2] = last.ret[j][2]) =>
                    IndexOf(last.ret[i][1], tag_keys)
                        < IndexOf(last.ret[j][1], tag_keys)
    /\ all_written => tag_keys = FrequencyKeys(data, listing)

\* an answer with three tags or more in which two tags with the same count
\* are not in lexicographic order
C15_Witness ==
    /\ last.op = "get_all_tags_by_frequency"
    /\ Len(last.ret) >= 3
    /\ \E i, j \in 1..Len(last.ret) :
          /\ i < j
          /\ last.ret[i][2] = last.ret[j][2]
          /\ LexLess(last.ret[j][1], last.ret[i][1])
    /\ \E i \in 1..Len(last.ret) : last.ret[i][2] >= 2

RECURSIVE Distance(_, _)
\* the Levenshtein distance by the standard recurrence: insertion, deletion
\* and substitution cost 1 each
Distance(a, b) ==
    IF a = <<>> THEN Len(b)
    ELSE IF b = <<>> THEN Len(a)
    ELSE IF Head(a) = Head(b) THEN Distance(Tail(a), Tail(b))
    ELSE 1 + Min3(Distance(Tail(a), b), Distance(a, Tail(b)),
                  Distance(Tail(a), Tail(b)))

\* the tags c of current for which g is near enough
Near(g, current) ==
    {i \in 1..Len(current) : Distance(current[i], g) <= SIMILARITY_THRESHOLD}

\* C16: get_local_suggestions(current) returns one (tag, count) pair for
\* every tag g of the index that is not in current and is at distance
\* SIMILARITY_THRESHOLD or less of some tag of current, no other pair, with
\* count = tag_frequency[g], the pairs ordered by count non-increasing.
C16_SuggestionsAreNearTags ==
    last.op = "get_local_suggestions" =>
        LET ret == last.ret
            current == last.arg
        IN /\ \A i, j \in 1..Len(ret) : ret[i][1] = ret[j][1] => i = j
           /\ {ret[i][1] : i \in 1..Len(ret)} =
                 {g \in DOMAIN tag_frequency :
                     ~In(g, current) /\ Near(g, current) # {}}
           /\ \A i \in 1..Len(ret) : ret[i][2] = tag_frequency[ret[i][1]]
           /\ \A i \in 1..(Len(ret) - 1) : ret[i][2] >= ret[i + 1][2]

\* an answer of two pairs or more, one of them for a tag that is near two
\* tags of current, while the index also holds a tag of current and a tag
\* that is too far from every tag of current
C16_Witness ==
    /\ last.op = "get_local_suggestions"
    /\ Len(last.ret) >= 2
    /\ \E i \in 1..Len(last.ret) :
          Cardinality({last.arg[k] : k \in Near(last.ret[i][1], last.arg)}) >= 2
    /\ \E g \in DOMAIN tag_frequency : In(g, last.arg)
    /\ \E g \in DOMAIN tag_frequency :
          ~In(g, last.arg) /\ Near(g, last.arg) = {}

(***************************************************************************)
(* The pure functions, applied to all strings up to a length.              *)
(***************************************************************************)
\* the longest string given to _levenshtein_distance and _match_pattern
MaxLen == 3

\* the strings over an alphabet of length n at most
Words(alphabet, n) == UNION {[1..k -> alphabet] : k \in 0..n}

\* (s1, s2) arguments of _levenshtein_distance: all pairs of short strings
\* over two letters, and a pair of words
DistancePairs ==
    (Words({"a", "b"}, MaxLen) \X Words({"a", "b"}, MaxLen)) \cup
    { << <<"c", "o", "l", "o", "r">>, <<"c", "o", "l", "o", "u", "r">> >> }

\* tag arguments of _match_pattern
PatternTags == Words({"a", "B"}, MaxLen)

\* pattern arguments of _match_pattern
Patterns == Words({"A", "b", "*"}, MaxLen)

ApplyLevenshteinDistance(s1, s2) ==
    Query("_levenshtein_distance", <<s1, s2>>, LevenshteinDistance(s1, s2))

ApplyMatchPattern(tag, pattern) ==
    Query("_match_pattern", <<tag, pattern>>, MatchPattern(tag, pattern))

\* no method has been called yet
Fresh == last.op = "__init__"

\* one call of one of the two functions on a new object
NextPure ==
    \/ Fresh /\ \E p \in DistancePairs : ApplyLevenshteinDistance(p[1], p[2])
    \/ Fresh /\ \E tag \in PatternTags, pattern \in Patterns :
                   ApplyMatchPattern(tag, pattern)

SpecPure == InitOrganizer /\ [][NextPure]_vars

\* C17: _levenshtein_distance(a, b) is the Levenshtein distance of the
\* standard recurrence; it is the same for (b, a), and it is 0 exactly when
\* a = b.
C17_LevenshteinIsStandard ==
    last.op = "_levenshtein_distance" =>
        LET a == last.arg[1]
            b == last.arg[2]
        IN /\ last.ret = Distance(a, b)
           /\ last.ret = LevenshteinDistance(b, a)
           /\ (last.ret = 0) <=> (a = b)

\* a shorter string compared with a longer one that shares letters with it:
\* the distance is 2 or more and less than the length of the longer one
C17_Witness ==
    /\ last.op = "_levenshtein_distance"
    /\ last.arg[1] # <<>>
    /\ Len(last.arg[1]) < Len(last.arg[2])
    /\ last.ret >= 2
    /\ last.ret < Len(last.arg[2])

\* the positions of the wildcards of a pattern
Stars(pattern) == {i \in 1..Len(pattern) : pattern[i] = "*"}

\* the literal segment before the first wildcard, in lower case
FirstSegment(pattern) ==
    Lower(SubSeq(pattern, 1, (CHOOSE i \in Stars(pattern) :
                                 \A j \in Stars(pattern) : i <= j) - 1))

\* the literal segment after the last wildcard, in lower case
LastSegment(pattern) ==
    Lower(SubSeq(pattern, (CHOOSE i \in Stars(pattern) :
                              \A j \in Stars(pattern) : i >= j) + 1,
                 Len(pattern)))

StartsWith(s, prefix) ==
    Len(prefix) <= Len(s) /\ SubSeq(s, 1, Len(prefix)) = prefix

EndsWith(s, suffix) ==
    Len(suffix) <= Len(s) /\ SubSeq(s, Len(s) - Len(suffix) + 1, Len(s)) = suffix

\* C18: _match_pattern ignores letter case; a pattern without a wildcard
\* matches exactly the tags equal to it but for case; a pattern of wildcards
\* alone matches every tag, the empty one too; a match on a pattern that does
\* not begin with a wildcard implies that the tag starts with the first
\* literal segment, and a match on a pattern that does not end with one
\* implies that the tag ends with the last literal segment.
C18_MatchIsAnchored ==
    last.op = "_match_pattern" =>
        LET tag == last.arg[1]
            pattern == last.arg[2]
        IN /\ last.ret = MatchPattern(Lower(tag), Lower(pattern))
           /\ Stars(pattern) = {} => (last.ret <=> Lower(tag) = Lower(pattern))
           /\ (pattern # <<>> /\ Stars(pattern) = 1..Len(pattern)) => last.ret
           /\ (last.ret /\ Stars(pattern) # {} /\ pattern[1] # "*") =>
                 StartsWith(Lower(tag), FirstSegment(pattern))
           /\ (last.ret /\ Stars(pattern) # {} /\ pattern[Len(pattern)] # "*") =>
                 EndsWith(Lower(tag), LastSegment(pattern))

\* a match of a tag with an upper-case letter on a pattern with an upper-case
\* letter that has literal segments at both ends and a wildcard between them
C18_Witness ==
    /\ last.op = "_match_pattern"
    /\ last.ret
    /\ Stars(last.arg[2]) # {}
    /\ last.arg[2][1] = "A"
    /\ last.arg[2][Len(last.arg[2])] = "b"
    /\ Len(last.arg[1]) = 3
    /\ last.arg[1] # Lower(last.arg[1])

RECURSIVE Glob(_, _)
\* tag can be got from pattern by putting some string, the empty one too, in
\* the place of every wildcard
Glob(tag, pattern) ==
    IF pattern = <<>> THEN tag = <<>>
    ELSE IF Head(pattern) = "*"
         THEN Glob(tag, Tail(pattern)) \/ (tag # <<>> /\ Glob(Tail(tag), pattern))
         ELSE tag # <<>> /\ Head(tag) = Head(pattern) /\ Glob(Tail(tag), Tail(pattern))

\* C19 as stated: _match_pattern(tag, pattern) is true exactly when tag,
\* letter case aside, can be got from pattern by putting a string in the
\* place of every wildcard; so a pattern *S matches every tag that ends in S.
C19_StarIsAnyString ==
    last.op = "_match_pattern" =>
        (last.ret <=> Glob(Lower(last.arg[1]), Lower(last.arg[2])))
(***************************************************************************)
(* _auto_categorize and the tags it moves.                                 *)
(***************************************************************************)
\* the tag was moved by the call: it is in the list of category c, in the
\* list of no later category, and no longer uncategorized
MovedTo(tag, c) ==
    /\ In(tag, categories'[c].tags)
    /\ \A later \in (c + 1)..Len(categories') : ~In(tag, categories'[later].tags)
    /\ ~DictHas(uncategorized_tags', tag)

\* C20 as stated: after _auto_categorize every tag that was uncategorized and
\* matches a keyword of some category is in the list of the first such
\* category, in no later category's list and no longer uncategorized; a tag
\* that matches no keyword is still uncategorized with the same count; the
\* count reported is the number of tags taken out of the uncategorized set.
C20_AutoCategorizeFirstMatch ==
    [][last'.op = "_auto_categorize" =>
          /\ \A k \in 1..Len(uncategorized_tags) :
                LET tag == uncategorized_tags[k][1]
                    c == MatchingCategory(tag, categories)
                IN IF c # 0
                   THEN MovedTo(tag, c)
                   ELSE /\ DictHas(uncategorized_tags', tag)
                        /\ DictGet(uncategorized_tags', tag, 0)
                              = uncategorized_tags[k][2]
          /\ last'.ret = Len(uncategorized_tags) - Len(uncategorized_tags')
    ]_vars

(***************************************************************************)
(* The commit.                                                             *)
(***************************************************************************)
\* the name under which a tag is written: its pending new name, or its own
FinalTag(renames, tag) == DictGet(renames, tag, tag)

\* the tags of the categories, category by category, that stand in
\* current_tags, under their final names
OwnedPart(current_tags, cats, renames) ==
    LET owned == SelectSeq(AllCategoryTags(cats), LAMBDA t : In(t, current_tags))
    IN [i \in 1..Len(owned) |-> FinalTag(renames, owned[i])]

\* the tags of current_tags that no category owns and that have no pending
\* rename, in their order
RemainingPart(current_tags, cats, renames) ==
    SelectSeq(current_tags,
              LAMBDA t : t \notin CategorizedTags(cats) /\ ~DictHas(renames, t))

\* C21 as stated: after _save_categories the tag list of every target image
\* is the tags of the categories that the image holds, category by category
\* in definition order and in list order inside a category, under their
\* pending new names, followed by the other tags of the image, those that no
\* category owns and that have no pending rename, in their original order.
C21_CommitOrdersByCategory ==
    [][last'.op = "_save_categories" =>
          \A i \in 1..Len(image_list) :
             data'[image_list[i]] =
                OwnedPart(data[image_list[i]], categories, tag_renames) \o
                RemainingPart(data[image_list[i]], categories, tag_renames)
    ]_vars

(***************************************************************************)
(* Snapshots, undo and redo of the organizer.                              *)
(***************************************************************************)
\* the handlers that change a category's tags, the uncategorized tags or the
\* pending renames
MutatingOps == {"_add_tag_to_category", "_add_uncategorized_to_category",
                "_remove_from_category", "_move_tag_to_category",
                "_rename_tag_inline", "_end_drag_category",
                "apply_changes", "_auto_categorize",
                "_remove_tag_from_all_images"}

\* the step changes the categories, the uncategorized tags or the renames
Mutates == Snapshot(Organizer)' # Snapshot(Organizer)

\* C22 as stated: right after a handler that changed a category's tags, the
\* uncategorized tags or the pending renames, the redo stack is empty and
\* the snapshot on top of the undo stack is the state before the handler.
C22_MutationPushesSnapshot ==
    [][(last'.op \in MutatingOps /\ Mutates) =>
          /\ redo_stack' = <<>>
          /\ undo_stack' # <<>>
          /\ undo_stack'[Len(undo_stack')] = Snapshot(Organizer)
    ]_vars

\* C23 as stated: after one mutating action, _undo() brings the categories,
\* the uncategorized tags and the pending renames back to what they were
\* before the action, and _redo() after it brings back what they were after
\* the action; _undo() with an empty undo stack and _redo() with an empty
\* redo stack change neither the state nor a stack.
C23_UndoRedoAreInverse ==
    [][/\ (last'.op \in MutatingOps /\ Mutates) =>
             /\ Snapshot(OrganizerUndoIn(Organizer))' = Snapshot(Organizer)
             /\ Snapshot(OrganizerRedoIn(OrganizerUndoIn(Organizer)))' =
                   Snapshot(Organizer)'
       /\ (last'.op = "_undo" /\ undo_stack = <<>>) => Organizer' = Organizer
       /\ (last'.op = "_redo" /\ redo_stack = <<>>) => Organizer' = Organizer
    ]_vars

(***************************************************************************)
(* The uncategorized tags and the owners of a tag.                         *)
(***************************************************************************)
\* the tags of the target images
TargetTags == UNION {Range(data[image_list[i]]) : i \in 1..Len(image_list)}

\* the number of target images whose list holds the tag
ImagesWith(tag) ==
    Cardinality({i \in 1..Len(image_list) : In(tag, data[image_list[i]])})

\* C24 as stated: in every state of an open organizer the uncategorized tags
\* are exactly the tags that stand on a target image and in no category's
\* list, and the count kept for each is the number of target images whose
\* list holds it.
C24_UncategorizedIsDerived ==
    Opened =>
       /\ Range(DictKeys(uncategorized_tags)) =
             TargetTags \ CategorizedTags(categories)
       /\ \A i \in 1..Len(uncategorized_tags) :
             uncategorized_tags[i][2] = ImagesWith(uncategorized_tags[i][1])

\* the number of places in the categories' lists where the tag stands
Owners(tag) ==
    Cardinality(UNION {{<<i, j>> : j \in {k \in 1..Len(categories[i].tags) :
                                            categories[i].tags[k] = tag}} :
                       i \in 1..Len(categories)})

\* C27 as stated: in every state of an open organizer a tag stands at most
\* once in at most one category's list, and no tag is in a category's list
\* and uncategorized at once.
C27_OneOwner ==
    Opened =>
       /\ \A tag \in CategorizedTags(categories) : Owners(tag) <= 1
       /\ CategorizedTags(categories) \cap Range(DictKeys(uncategorized_tags)) = {}

\* C30 as stated: _save_categories leaves the categories, the uncategorized
\* tags, the pending renames, the undo stack and the redo stack as they
\* were, so a redo that was available is still available and one undo
\* after the commit reverts the last mutating action.
C30_CommitKeepsClassifierState ==
    [][last'.op = "_save_categories" => Organizer' = Organizer]_vars

\* the tags of a list stand in non-decreasing order of the index of the
\* first keyword that matches them, those that match no keyword last
KeywordOrdered(tags, keywords) ==
    \A i, j \in 1..Len(tags) :
       i < j => KeywordIndex(tags[i], keywords) <= KeywordIndex(tags[j], keywords)

\* the time at which a tag came into the list new: the tags of old in their
\* order, then the tags inserted, in the order in which the call took them
InsertionRank(tag, old, tags_to_categorize) ==
    IF In(tag, old) THEN IndexOf(tag, old)
    ELSE Len(old) + IndexOf(tag, tags_to_categorize)

\* C26: when the list of a category is empty or in keyword order before
\* _auto_categorize, after the call it is in non-decreasing order of the
\* index of the first keyword that matches each tag, tags that match no
\* keyword last, and the tags with the same index stand in the order in
\* which they were inserted.
C26_AutoCategorizeKeepsKeywordOrder ==
    [][last'.op = "_auto_categorize" =>
          \A c \in 1..Len(categories) :
             KeywordOrdered(categories[c].tags, categories[c].auto_keywords) =>
                /\ KeywordOrdered(categories'[c].tags, categories[c].auto_keywords)
                /\ \A i, j \in 1..Len(categories'[c].tags) :
                      (/\ i < j
                       /\ KeywordIndex(categories'[c].tags[i], categories[c].auto_keywords)
                             = KeywordIndex(categories'[c].tags[j], categories[c].auto_keywords))
                      => InsertionRank(categories'[c].tags[i], categories[c].tags,
                                       DictKeys(uncategorized_tags))
                            < InsertionRank(categories'[c].tags[j], categories[c].tags,
                                            DictKeys(uncategorized_tags))
    ]_vars

\* _auto_categorize has put a tag in front of a tag that the first category
\* held, and another one, with the keyword of that tag, behind it
C26_Witness ==
    /\ last.op = "_auto_categorize"
    /\ undo_stack # <<>>
    /\ undo_stack[Len(undo_stack)].categories[1].tags = << <<"a">> >>
    /\ categories[1].tags = << <<"c">>, <<"a">>, <<"A">> >>

(***************************************************************************)
(* Memory and disk.                                                        *)
(***************************************************************************)
\* C28 as stated: while every file write has succeeded, after load_data and
\* any calls of save_tags, undo and the global operations the sidecar of
\* every loaded image parses to the list that memory holds for the image,
\* also when several loaded images share one sidecar.
C28_MemoryAgreesWithDisk ==
    (Loaded /\ all_written) =>
       \A f \in DOMAIN data :
          /\ files[TxtPath(f)] # NoFile
          /\ LoadTagsFromContent(files[TxtPath(f)]) = data[f]

\* C29 as stated: _save_categories with no pending rename leaves every
\* target image with the set of tags it had, and with pending renames every
\* tag that was on a target image is on it afterwards under its own name or
\* under its pending new name.
C29_CommitLosesNoTag ==
    [][last'.op = "_save_categories" =>
          \A i \in 1..Len(image_list) :
             /\ tag_renames = <<>> =>
                   Range(data'[image_list[i]]) = Range(data[image_list[i]])
             /\ \A tag \in Range(data[image_list[i]]) :
                   \/ tag \in Range(data'[image_list[i]])
                   \/ /\ DictHas(tag_renames, tag)
                      /\ FinalTag(tag_renames, tag) \in Range(data'[image_list[i]])
    ]_vars

(***************************************************************************)
(* The groups file: a commit, then a new organizer on the same images.     *)
(***************************************************************************)
\* the step opens a new organizer on the images of the one that has just
\* committed
Reopens ==
    /\ last.op = "_save_categories"
    /\ last'.op = "CategoryOrganizer"
    /\ image_list' = image_list

\* C25 as stated: a new organizer on the same target images after a commit
\* has every tag that was in a category, and is on a target image, in that
\* category again under its committed name, and has no tag in a category in
\* which it was not committed.
C25_AssignmentsSurviveSession ==
    [][Reopens =>
          \A c \in 1..Len(categories) :
             /\ \A k \in 1..Len(categories[c].tags) :
                   FinalTag(tag_renames, categories[c].tags[k]) \in TargetTags =>
                      In(FinalTag(tag_renames, categories[c].tags[k]),
                         categories'[c].tags)
             /\ \A k \in 1..Len(categories'[c].tags) :
                   \E j \in 1..Len(categories[c].tags) :
                      FinalTag(tag_renames, categories[c].tags[j])
                         = categories'[c].tags[k]
    ]_vars

=============================================================================
